---- MODULE Spec2Model ----
(***************************************************************************)
(* The PNG icon encoder of build.ts: createSimplePng, createChunk,         *)
(* simpleDeflate, adler32 and crc32, and generateIcons, which writes the   *)
(* encoded icons.                                                          *)
(*                                                                         *)
(* Numbers.  The encoder's numbers are JavaScript Numbers that only pass   *)
(* through +, %, comparison and the 32-bit operators & | ^ ~ << >> >>>.    *)
(* Every value the model handles lies in the int32 range, on which ToInt32 *)
(* is the identity; the bitwise operators below return what the language   *)
(* returns: a signed int32 for & | ^ ~ << >>, an unsigned value for >>>.   *)
(* The two literals above 2^31 (0xffffffff, 0xedb88320) occur only as      *)
(* operands of ^ and are written through U32Lit as their ToInt32 image.    *)
(*                                                                         *)
(* Loops.  A loop that folds its input left to right (adler32, crc32, the  *)
(* pixel rows) is written over an index range that is halved, the left     *)
(* half run first and its result handed to the right half; the iterations  *)
(* and their order are those of the code.                                  *)
(***************************************************************************)
EXTENDS Integers, Sequences, FiniteSets, Bags, TLC

VARIABLES
    call,       \* the call this run makes: function and argument
    deflate,    \* the running simpleDeflate call: its position and locals
    icons,      \* the generateIcons run: its position, size list and index
    files,      \* the files written so far: path |-> content
    ret,        \* the call that has just returned: function, argument, value
    png,        \* the frames of two createSimplePng activations: their locals
    storage,    \* chrome.storage.local: the keys the popup's handlers use
    tasks,      \* the running async handlers: their position and locals
    removedSince,   \* history: the users removed and not added again since
    authorsList,    \* the remove buttons of the popup's authors-list, as last rendered
    now,        \* the clock that Date.now() reads and the timers run by
    currentFilter,  \* the popup's currentFilter
    searchQuery,    \* the popup's searchQuery
    container,  \* the cards of the popup's articles-list, as last rendered
    cachedMetadata, \* the content script's cachedMetadata
    location,   \* window.location.href of the tab the content script runs in
    lastUrl,    \* the content script's lastUrl
    currentUrl, \* the content script's currentUrl
    isInitialized,  \* the content script's isInitialized
    scrollHandler,  \* whether scrollHandler is set and listens
    initTimers, \* the due times of the timers set with setTimeout(initTracking, 1000)
    initRuns,   \* the initTracking calls that are past their tests: position and due time
    timeoutId,  \* the timeoutId of the debounced wrapper's closure
    timers,     \* the timers that are set and have neither fired nor been cleared
    wrapperCalls,   \* history: the calls of the debounced wrapper
    fnRuns      \* history: the runs of the function that was wrapped

vars == <<call, deflate, icons, files, ret, png, storage, tasks, removedSince,
          authorsList, now, currentFilter, searchQuery, container,
          cachedMetadata, location, lastUrl, currentUrl, isInitialized,
          scrollHandler, initTimers, initRuns, timeoutId, timers, wrapperCalls,
          fnRuns>>

\* The variables of the icon encoder, those of the popup's author handlers,
\* those of the tab's content script, those of the pages and the clock, and
\* those of a debounced function.
encoderVars == <<call, deflate, icons, files, ret, png>>
popupVars == <<storage, tasks, removedSince, authorsList>>
trackVars == <<location, lastUrl, currentUrl, isInitialized, scrollHandler,
               initTimers, initRuns>>
pageVars == <<now, currentFilter, searchQuery, container, cachedMetadata,
              trackVars>>
timerVars == <<timeoutId, timers, wrapperCalls, fnRuns>>

----------------------------------------------------------------------------
(* 32-bit integer operators of the implementation language *)

MinInt32 == -2147483647 - 1

\* ToInt32 of the literal hi * 2^16 + lo, for 16-bit halves hi and lo.
U32Lit(hi, lo) == (IF hi >= 32768 THEN hi - 65536 ELSE hi) * 65536 + lo

\* Bitwise operators on 4-bit digits, tabulated from the sets of their one-bit
\* positions.  Table(op)[a + 1][b + 1] is the digit whose bits are those the
\* operator op makes of the bits of a and of b.
NibbleBits(a) == {i \in 0..3 : (a \div (2 ^ i)) % 2 = 1}

\* The sum of 2^i over the positions in S (the size of the bag that holds 2^i
\* copies of each i).
NibbleOf(S) == BagCardinality([i \in S |-> 2 ^ i])

\* The one-bit positions of a op b, given those of a and of b.
CombineBits(op, A, B) ==
    CASE op = "&" -> A \cap B
      [] op = "|" -> A \cup B
      [] op = "^" -> (A \cup B) \ (A \cap B)

Table(op) ==
    SubSeq([a \in 1..16 |->
               SubSeq([b \in 1..16 |->
                          NibbleOf(CombineBits(op, NibbleBits(a - 1),
                                               NibbleBits(b - 1)))],
                      1, 16)],
           1, 16)

AndTable == Table("&")
OrTable == Table("|")
XorTable == Table("^")

\* The index in a table of 4-bit digit k (0..7) of the int32 x in two's
\* complement.
Nib(x, k) == ((x \div (16 ^ k)) % 16) + 1

\* The int32 whose digits are T of the digits of x and y; the top digit
\* carries the sign.
Bitwise(T, x, y) ==
    (((T[Nib(x, 0)][Nib(y, 0)] + 16 * T[Nib(x, 1)][Nib(y, 1)])
      + (256 * T[Nib(x, 2)][Nib(y, 2)] + 4096 * T[Nib(x, 3)][Nib(y, 3)]))
     + ((65536 * T[Nib(x, 4)][Nib(y, 4)] + 1048576 * T[Nib(x, 5)][Nib(y, 5)])
        + 16777216 * T[Nib(x, 6)][Nib(y, 6)]))
    + (LET top == T[Nib(x, 7)][Nib(y, 7)]
       IN  268435456 * (IF top >= 8 THEN top - 16 ELSE top))

\* The masks 2^k - 1, for which x & mask is x modulo 2^k.
LowMasks == {(2 ^ k) - 1 : k \in 0..16}

\* x & y
And32(x, y) ==
    IF y \in LowMasks THEN x % (y + 1) ELSE Bitwise(AndTable, x, y)

\* x | y
Or32(x, y) == Bitwise(OrTable, x, y)

\* x ^ y
Xor32(x, y) == IF y = 0 THEN x ELSE Bitwise(XorTable, x, y)

\* ~x
Not32(x) == (-1) - x

\* x << n, for n in 1..30: bits 0..31-n of x move up, bit 31-n becomes the sign.
Shl32(x, n) ==
    LET m == 2 ^ (31 - n)
    IN  (x % m) * (2 ^ n) + (IF (x \div m) % 2 = 1 THEN MinInt32 ELSE 0)

\* x >> n (sign-propagating), for n in 0..30.
Sar32(x, n) == x \div (2 ^ n)

\* x >>> n (zero-fill), for n in 1..30: the result is below 2^31.
Shr32(x, n) ==
    IF x >= 0 THEN x \div (2 ^ n)
    ELSE ((x - MinInt32) \div (2 ^ n)) + 2 ^ (31 - n)

----------------------------------------------------------------------------
(* Checksums *)

AdlerMod == 65521

\* One iteration of adler32's loop on the pair <<a, b>>.
AdlerStep(st, byte) ==
    LET a == (st[1] + byte) % AdlerMod
    IN  <<a, (st[2] + a) % AdlerMod>>

\* adler32's for-of loop over data[lo..hi], entered with <<a, b>> = st.  The
\* bytes are consumed left to right: Run[l, h, s] runs the iterations for
\* data[l..h] from the pair s, the left half of the range first and the
\* right half from the pair the left half ends with.  The range is halved
\* only to keep the evaluation depth logarithmic.
AdlerLoop(data, lo, hi, st) ==
    LET Run[l \in Nat, h \in Nat, s \in Nat \X Nat] ==
            IF l > h THEN s
            ELSE IF l = h THEN AdlerStep(s, data[l])
            ELSE Run[((l + h) \div 2) + 1, h, Run[l, (l + h) \div 2, s]]
    IN  Run[lo, hi, st]

\* adler32 returning (a << 16) | b.
adler32_SwappedSums(data) ==
    LET Pack[st \in Nat \X Nat] == Or32(Shl32(st[1], 16), st[2])
    IN  Pack[AdlerLoop(data, 1, Len(data), <<1, 0>>)]

\* return (b << 16) | a, the sums being those the loop ends with.
adler32(data) ==
    LET Pack[st \in Nat \X Nat] == Or32(Shl32(st[2], 16), st[1])
    IN  Pack[AdlerLoop(data, 1, Len(data), <<1, 0>>)]

\* 0xedb88320 and 0xffffffff as the ^ operator sees them.
CrcPoly == U32Lit(60856, 33568)
CrcInit == U32Lit(65535, 65535)

\* One pass of crc32's inner loop: crc = (crc >>> 1) ^ (crc & 1 ? poly : 0).
CrcBit(crc) ==
    Xor32(Shr32(crc, 1), IF And32(crc, 1) # 0 THEN CrcPoly ELSE 0)

\* One iteration of crc32's outer loop: crc ^= byte, then eight CrcBit passes.
CrcStep(crc, byte) ==
    LET Pass[c \in Int] == CrcBit(c)
    IN  Pass[Pass[Pass[Pass[Pass[Pass[Pass[Pass[Xor32(crc, byte)]]]]]]]]

\* crc32's for-of loop over data[lo..hi], entered with crc; halved like
\* AdlerLoop.
CrcLoop(data, lo, hi, crc) ==
    LET Run[l \in Nat, h \in Nat, c \in Int] ==
            IF l > h THEN c
            ELSE IF l = h THEN CrcStep(c, data[l])
            ELSE Run[((l + h) \div 2) + 1, h, Run[l, (l + h) \div 2, c]]
    IN  Run[lo, hi, crc]

\* crc32 without the final complement (return crc).
crc32_NoFinalXor(data) == CrcLoop(data, 1, Len(data), CrcInit)

crc32(data) == Xor32(CrcLoop(data, 1, Len(data), CrcInit), CrcInit)

----------------------------------------------------------------------------
(* Byte sequences *)

\* (x >> 24) & 0xff, (x >> 16) & 0xff, (x >> 8) & 0xff, x & 0xff
BigEndian4(x) ==
    LET Bytes[v \in Int] ==
            <<And32(Sar32(v, 24), 255), And32(Sar32(v, 16), 255),
              And32(Sar32(v, 8), 255), And32(v, 255)>>
    IN  Bytes[x]

\* The sequences s1 \o s2 \o ... of a sequence of sequences (spread and push).
RECURSIVE Flatten(_)
Flatten(ss) == IF ss = <<>> THEN <<>> ELSE Head(ss) \o Flatten(Tail(ss))

----------------------------------------------------------------------------
(* simpleDeflate: zlib wrapper around stored deflate blocks *)

MaxBlock == 65535

\* The locals of simpleDeflate when the block loop is first tested.
DeflateStart == [offset |-> 0, result |-> <<120, 1>>]

\* The loop body with an empty non-final block pushed before the last block.
DeflateIter_EmptyBlock(data, loc) ==
    LET remaining == Len(data) - loc.offset
        blockSize == IF remaining < MaxBlock THEN remaining ELSE MaxBlock
        isLast    == loc.offset + blockSize >= Len(data)
    IN  [offset |-> loc.offset + blockSize,
         result |-> loc.result
                    \o (IF isLast THEN <<0, 0, 0, 255, 255>> ELSE <<>>)
                    \o <<IF isLast THEN 1 ELSE 0>>
                    \o <<And32(blockSize, 255), And32(Sar32(blockSize, 8), 255)>>
                    \o <<And32(Not32(blockSize), 255),
                         And32(Sar32(Not32(blockSize), 8), 255)>>
                    \o SubSeq(data, loc.offset + 1, loc.offset + blockSize)]

\* The loop body with NLEN pushed as -blockSize instead of ~blockSize.
DeflateIter_NegatedLen(data, loc) ==
    LET remaining == Len(data) - loc.offset
        blockSize == IF remaining < MaxBlock THEN remaining ELSE MaxBlock
        isLast    == loc.offset + blockSize >= Len(data)
    IN  [offset |-> loc.offset + blockSize,
         result |-> loc.result
                    \o <<IF isLast THEN 1 ELSE 0>>
                    \o <<And32(blockSize, 255), And32(Sar32(blockSize, 8), 255)>>
                    \o <<And32(-blockSize, 255),
                         And32(Sar32(-blockSize, 8), 255)>>
                    \o SubSeq(data, loc.offset + 1, loc.offset + blockSize)]

\* The loop body with offset += blockSize + 1.
DeflateIter_SkipByte(data, loc) ==
    LET remaining == Len(data) - loc.offset
        blockSize == IF remaining < MaxBlock THEN remaining ELSE MaxBlock
        isLast    == loc.offset + blockSize >= Len(data)
    IN  [offset |-> loc.offset + blockSize + 1,
         result |-> loc.result
                    \o <<IF isLast THEN 1 ELSE 0>>
                    \o <<And32(blockSize, 255), And32(Sar32(blockSize, 8), 255)>>
                    \o <<And32(Not32(blockSize), 255),
                         And32(Sar32(Not32(blockSize), 8), 255)>>
                    \o SubSeq(data, loc.offset + 1, loc.offset + blockSize)]

\* The body of the while loop: one stored block appended, offset advanced.
DeflateIter(data, loc) ==
    LET remaining == Len(data) - loc.offset
        blockSize == IF remaining < MaxBlock THEN remaining ELSE MaxBlock
        isLast    == loc.offset + blockSize >= Len(data)
    IN  [offset |-> loc.offset + blockSize,
         result |-> loc.result
                    \o <<IF isLast THEN 1 ELSE 0>>
                    \o <<And32(blockSize, 255), And32(Sar32(blockSize, 8), 255)>>
                    \o <<And32(Not32(blockSize), 255),
                         And32(Sar32(Not32(blockSize), 8), 255)>>
                    \o SubSeq(data, loc.offset + 1, loc.offset + blockSize)]

\* The while loop, from the locals loc to its exit.
RECURSIVE DeflateLoop(_, _)
DeflateLoop(data, loc) ==
    IF loc.offset < Len(data) THEN DeflateLoop(data, DeflateIter(data, loc))
    ELSE loc

\* The checksum pushed least significant byte first.
DeflateFinish_LittleEndian(data, result) ==
    LET be == BigEndian4(adler32(data))
    IN  result \o <<be[4], be[3], be[2], be[1]>>

\* After the loop: the Adler-32 of the whole input is pushed, big-endian.
DeflateFinish(data, result) == result \o BigEndian4(adler32(data))

simpleDeflate(data) ==
    DeflateFinish(data, DeflateLoop(data, DeflateStart).result)

----------------------------------------------------------------------------
(* createChunk: length, type, data, CRC *)

\* createChunk with the CRC taken over the data alone (crc32(data)).
createChunk_CrcOfData(type, data) ==
    BigEndian4(Len(data)) \o type \o data \o BigEndian4(crc32(data))

\* type is the string as its sequence of UTF-16 code units (charCodeAt).
createChunk(type, data) ==
    LET length    == Len(data)
        typeBytes == type
        crc       == crc32(typeBytes \o data)
    IN  BigEndian4(length) \o typeBytes \o data \o BigEndian4(crc)

----------------------------------------------------------------------------
(* createSimplePng *)

\* A size is the number high * 2^31 + num / den (den > 0, high 0 or 1), so
\* that non-integer arguments and the integers from 2^31 to 2^32 - 1 can be
\* passed; with high = 1, num is in 0..2^31 - 1 and den is 1.
Num(n) == [num |-> n, den |-> 1, high |-> 0]
High(n) == [num |-> n, den |-> 1, high |-> 1]

\* ToInt32 of a size, as the operands of >> take it: truncation toward zero,
\* then the value modulo 2^32 read as a signed 32-bit integer.
ToInt32(size) ==
    IF size.high = 1 THEN MinInt32 + size.num
    ELSE IF size.num >= 0 THEN size.num \div size.den
    ELSE -((-size.num) \div size.den)

\* i < size, for an integer loop counter i.
LessThan(i, size) == size.high = 1 \/ i * size.den < size.num

Signature == <<137, 80, 78, 71, 13, 10, 26, 10>>

IHDR == <<73, 72, 68, 82>>
IDAT == <<73, 68, 65, 84>>
IEND == <<73, 69, 78, 68>>

\* The number of passes of for (i = 0; i < size; i++): the least counter
\* for which i < size fails (sizes below 2^31).
Iterations(size) ==
    IF LessThan(0, size) THEN ((size.num - 1) \div size.den) + 1 ELSE 0

\* The inner loop over x: one pixel (29, 155, 240) pushed per column from x
\* on.  Run[l, h] is what the passes l..h push, in order; the range is
\* halved only to keep the evaluation depth logarithmic.
PixelColumns(x, width) ==
    LET Run[l \in Int, h \in Int] ==
            IF l > h THEN <<>>
            ELSE IF l = h THEN <<29, 155, 240>>
            ELSE Run[l, (l + h) \div 2] \o Run[((l + h) \div 2) + 1, h]
    IN  Run[x, Iterations(width) - 1]

\* The outer loop with the filter byte pushed after the row's pixels.
PixelRows_FilterLast(y, width, height) ==
    LET Run[l \in Int, h \in Int] ==
            IF l > h THEN <<>>
            ELSE IF l = h THEN PixelColumns(0, width) \o <<0>>
            ELSE Run[l, (l + h) \div 2] \o Run[((l + h) \div 2) + 1, h]
    IN  Run[y, Iterations(height) - 1]

\* The outer loop over y: the filter byte 0, then the row's pixels.
PixelRows(y, width, height) ==
    LET Run[l \in Int, h \in Int] ==
            IF l > h THEN <<>>
            ELSE IF l = h THEN <<0>> \o PixelColumns(0, width)
            ELSE Run[l, (l + h) \div 2] \o Run[((l + h) \div 2) + 1, h]
    IN  Run[y, Iterations(height) - 1]

\* ihdrData with each dimension written least significant byte first.
IhdrData_LittleEndian(width, height) ==
    LET Reverse4(b) == <<b[4], b[3], b[2], b[1]>>
    IN  Reverse4(BigEndian4(ToInt32(width)))
            \o Reverse4(BigEndian4(ToInt32(height))) \o <<8, 2, 0, 0, 0>>

IhdrData(width, height) ==
    BigEndian4(ToInt32(width)) \o BigEndian4(ToInt32(height)) \o <<8, 2, 0, 0, 0>>

\* new Uint8Array(list): every element is stored modulo 256.
Uint8Array(list) == [i \in 1..Len(list) |-> list[i] % 256]

\* The number of arguments every engine that runs build.ts lets a call
\* pass: the limit of JavaScriptCore, the engine of Bun, is 65536; the limit
\* of V8 is higher and moves with the size of the stack.
MaxArguments == 65536

\* chunks.push(...list) passes every element of list as an argument.  Up to
\* MaxArguments elements the call completes; beyond, the engine decides
\* whether it completes or throws RangeError.
SpreadMayThrow(list) == Len(list) > MaxArguments

\* What a call comes to: the value it returns, or the error it throws.
Completes(value) == [threw |-> "none", value |-> value]
Throws(error) == [threw |-> error, value |-> <<>>]

\* The three pushes onto chunks, in order, of the chunks in pushed, and the
\* return of new Uint8Array([...signature, ...chunks]): the outcomes the
\* engines give.  The bytes are returned when every push completes.
PushAndReturn(pushed) ==
    {Completes(Uint8Array(Signature \o Flatten(pushed)))}
        \cup IF \E k \in 1..Len(pushed) : SpreadMayThrow(pushed[k])
             THEN {Throws("RangeError")}
             ELSE {}

\* createSimplePng with the IDAT chunk pushed after IEND.
createSimplePng_IdatLast(size) ==
    LET pixels == PixelRows(0, size, size)
    IN  PushAndReturn(<<createChunk(IHDR, IhdrData(size, size)),
                        createChunk(IEND, <<>>),
                        createChunk(IDAT, simpleDeflate(pixels))>>)

\* createSimplePng(size): the set of its outcomes, one buffer for the sizes
\* whose chunks every engine can push.
createSimplePng(size) ==
    LET width      == size
        height     == size
        pixels     == PixelRows(0, width, height)
        compressed == simpleDeflate(pixels)
    IN  PushAndReturn(<<createChunk(IHDR, IhdrData(width, height)),
                        createChunk(IDAT, compressed),
                        createChunk(IEND, <<>>)>>)

----------------------------------------------------------------------------
(* Inputs *)

MaxLen == 3
MaxRun == 16
MaxSize == 3

ByteVals == {0, 1, 255}

\* Every byte sequence over ByteVals of length at most n.
RECURSIVE SeqsUpTo(_)
SeqsUpTo(n) ==
    IF n = 0 THEN {<<>>}
    ELSE LET shorter == SeqsUpTo(n - 1)
         IN  shorter \cup {Append(s, v) : s \in shorter, v \in ByteVals}

ShortInputs == SeqsUpTo(MaxLen)

\* n bytes 0xff: the input that drives both Adler sums up fastest.
RunInputs == {[i \in 1..n |-> 255] : n \in (MaxRun - 3)..MaxRun}

\* 257 and 258 bytes 0xff: the first inputs whose byte sum passes 65521.
WrapInputs == {[i \in 1..n |-> 255] : n \in {257, 258}}

\* Inputs around the block limit: one full block, one byte more, four blocks.
Pattern(n) == SubSeq([i \in 1..n |-> (i * 7) % 256], 1, n)
LongInputs == {Pattern(n) : n \in {MaxBlock, MaxBlock + 1, 200000}}

\* Type tags: the three the encoder uses, and tags that are not four ASCII
\* characters (empty, short, long, a Latin-1 letter, a code unit above 255).
EncoderTypes == {IHDR, IDAT, IEND}
ChunkTypes ==
    EncoderTypes \cup {<<>>, <<73, 72, 68>>, <<73, 72, 68, 82, 88>>,
     <<73, 233, 78, 68>>, <<73, 8364, 78, 68>>}

\* Sizes: negative, zero, the small positive ones, a non-integer, the
\* smallest icon of generateIcons, and the least size whose IDAT chunk has
\* more than MaxArguments bytes (148 * (1 + 148 * 3) = 65860).
SizeInputs ==
    {Num(n) : n \in -1..MaxSize}
    \cup {[num |-> 3, den |-> 2, high |-> 0], Num(16), Num(148)}

\* Sizes for the header fields alone, which are computed before any pixel
\* is pushed: one, the byte boundaries, and the two ends of 2^31..2^32 - 1
\* with 3000000000 between them.
HeaderSizes ==
    {Num(n) : n \in {1, 255, 256, 65535, 65536, 16777216, 2147483647}}
    \cup {High(n) : n \in {0, 1, 852516352, 2147483647}}

\* The icon sizes of generateIcons.
sizes == <<Num(16), Num(48), Num(128)>>

----------------------------------------------------------------------------
(* The program as a state machine: one call, run from entry to return *)

\* The calls a run can make: a function of the encoder and its argument.
Calls ==
    {[fn |-> "adler32", arg |-> d] :
         d \in ShortInputs \cup RunInputs \cup WrapInputs}
    \cup {[fn |-> "crc32", arg |-> d] : d \in ShortInputs \cup EncoderTypes}
    \cup {[fn |-> "createChunk", arg |-> [type |-> t, data |-> d]] :
              t \in ChunkTypes, d \in ShortInputs}
    \cup {[fn |-> "createSimplePng", arg |-> s] : s \in SizeInputs}
    \cup {[fn |-> "ihdrData", arg |-> s] : s \in HeaderSizes}
    \cup {[fn |-> "simpleDeflate", arg |-> d] :
              d \in ShortInputs \cup RunInputs \cup LongInputs}
    \cup {[fn |-> "generateIcons", arg |-> <<>>]}

NoCall == [fn |-> "none"]
Idle == [pc |-> "idle"]

\* No function of the encoder has a throw statement: a call returns a value,
\* unless a call it makes throws.
Returned(fn, arg, value) ==
    [fn |-> fn, arg |-> arg, threw |-> "none", value |-> value]

\* The call has come to out: a value returned or an error thrown.
Settled(fn, arg, out) ==
    [fn |-> fn, arg |-> arg, threw |-> out.threw, value |-> out.value]

\* The call has not been entered yet.
Pending(fn) ==
    /\ call.fn = fn
    /\ ret = NoCall
    /\ deflate.pc = "idle"
    /\ icons.pc = "idle"

\* const API_KEY = '' in the content script and in the popup.
API_KEY == <<>>

\* let cachedMetadata: ArticleMetadata | null = null
Null == [null |-> TRUE]

\* No tab with the content script is open.
NoTab ==
    /\ cachedMetadata = Null
    /\ location = ""
    /\ lastUrl = ""
    /\ currentUrl = ""
    /\ isInitialized = FALSE
    /\ scrollHandler = FALSE
    /\ initTimers = <<>>
    /\ initRuns = <<>>

\* !API_KEY || API_KEY === 'YOUR_API_KEY_HERE'
KeyMissing(key) ==
    key = <<>> \/ key = <<"YOUR_API_KEY_HERE">>

Init ==
    /\ call \in Calls
    /\ deflate = Idle
    /\ icons = Idle
    /\ files = <<>>
    /\ ret = NoCall
    /\ png = <<>>
    /\ storage = <<>>
    /\ tasks = <<>>
    /\ removedSince = {}
    /\ authorsList = <<>>
    /\ NoTab
    /\ now = 0
    /\ currentFilter = "pending"
    /\ searchQuery = <<>>
    /\ container = <<>>
    /\ timeoutId = 0
    /\ timers = {}
    /\ wrapperCalls = <<>>
    /\ fnRuns = <<>>

CallAdler32 ==
    /\ Pending("adler32")
    /\ ret' = Returned("adler32", call.arg, adler32(call.arg))
    /\ UNCHANGED <<popupVars, pageVars, timerVars, png, call, deflate, icons, files>>

CallCrc32 ==
    /\ Pending("crc32")
    /\ ret' = Returned("crc32", call.arg, crc32(call.arg))
    /\ UNCHANGED <<popupVars, pageVars, timerVars, png, call, deflate, icons, files>>

CallCreateChunk ==
    /\ Pending("createChunk")
    /\ ret' = Returned("createChunk", call.arg,
                       createChunk(call.arg.type, call.arg.data))
    /\ UNCHANGED <<popupVars, pageVars, timerVars, png, call, deflate, icons, files>>

CallCreateSimplePng ==
    /\ Pending("createSimplePng")
    /\ \E out \in createSimplePng(call.arg) :
           ret' = Settled("createSimplePng", call.arg, out)
    /\ UNCHANGED <<popupVars, pageVars, timerVars, png, call, deflate, icons, files>>

\* createSimplePng up to the pixel loops: width, height and ihdrData are
\* set.  The value is the header payload; the loops that follow push
\* size * (1 + size * 3) numbers before anything is returned.
CallIhdrData ==
    /\ Pending("ihdrData")
    /\ LET width  == call.arg
           height == call.arg
       IN  ret' = Returned("ihdrData", call.arg, IhdrData(width, height))
    /\ UNCHANGED <<popupVars, pageVars, timerVars, png, call, deflate, icons, files>>

\* simpleDeflate is entered: cmf, flg pushed, offset = 0.
DeflateEnter ==
    /\ Pending("simpleDeflate")
    /\ deflate' = [pc |-> "loop", data |-> call.arg,
                   offset |-> DeflateStart.offset,
                   result |-> DeflateStart.result]
    /\ UNCHANGED <<popupVars, pageVars, timerVars, png, call, icons, files, ret>>

\* One iteration of the while loop.
DeflateBlock ==
    /\ deflate.pc = "loop"
    /\ deflate.offset < Len(deflate.data)
    /\ LET loc == DeflateIter(deflate.data, [offset |-> deflate.offset,
                                             result |-> deflate.result])
       IN  deflate' = [deflate EXCEPT !.offset = loc.offset,
                                      !.result = loc.result]
    /\ UNCHANGED <<popupVars, pageVars, timerVars, png, call, icons, files, ret>>

\* The loop exits: the checksum is pushed and result returned.
DeflateReturn ==
    /\ deflate.pc = "loop"
    /\ ~(deflate.offset < Len(deflate.data))
    /\ ret' = Returned("simpleDeflate", deflate.data,
                       DeflateFinish(deflate.data, deflate.result))
    /\ deflate' = [pc |-> "done"]
    /\ UNCHANGED <<popupVars, pageVars, timerVars, png, call, icons, files>>

\* Bun.write(path, content): the file is created or overwritten.
Write(fs, path, content) ==
    [p \in DOMAIN fs \cup {path} |-> IF p = path THEN content ELSE fs[p]]

SvgPath(size) == [name |-> "icon", size |-> size, ext |-> "svg"]
PngPath(size) == [name |-> "icon", size |-> size, ext |-> "png"]

\* generateIcons is called: the loop is entered, Bun.write is called for
\* the .svg of the first size and awaited.
GenerateIconsEnter ==
    /\ Pending("generateIcons")
    /\ icons' = [pc |-> "svg", sizes |-> sizes, i |-> 1,
                 pngPlaceholder |-> <<>>]
    /\ UNCHANGED <<popupVars, pageVars, timerVars, png, call, deflate, files, ret>>

\* The write of the .svg is done: createSimplePng(size) is computed, and
\* Bun.write is called for the .png and awaited; an error thrown by
\* createSimplePng rejects generateIcons.
GenerateIconsSvgWritten ==
    /\ icons.pc = "svg"
    /\ LET size == icons.sizes[icons.i]
           svg  == [svg |-> size]
       IN  /\ files' = Write(files, SvgPath(size), svg)
           /\ \E out \in createSimplePng(size) :
                  IF out.threw = "none"
                  THEN /\ icons' = [icons EXCEPT !.pc = "png",
                                                 !.pngPlaceholder = out.value]
                       /\ ret' = ret
                  ELSE /\ icons' = [icons EXCEPT !.pc = "rejected"]
                       /\ ret' = Settled("generateIcons", call.arg, out)
    /\ UNCHANGED <<popupVars, pageVars, timerVars, png, call, deflate>>

\* The write of the .png is done: the loop goes on to the next size, for
\* which Bun.write is called for the .svg and awaited, or exits.
GenerateIconsPngWritten ==
    /\ icons.pc = "png"
    /\ files' = Write(files, PngPath(icons.sizes[icons.i]),
                      icons.pngPlaceholder)
    /\ icons' = [icons EXCEPT
                    !.pc = IF icons.i < Len(icons.sizes) THEN "svg" ELSE "exit",
                    !.i = @ + 1,
                    !.pngPlaceholder = <<>>]
    /\ UNCHANGED <<popupVars, pageVars, timerVars, png, call, deflate, ret>>

\* A write fails: the promise of Bun.write rejects, nothing is written, and
\* generateIcons rejects with the error.
GenerateIconsWriteFails ==
    /\ icons.pc \in {"svg", "png"}
    /\ icons' = [icons EXCEPT !.pc = "rejected", !.pngPlaceholder = <<>>]
    /\ ret' = Settled("generateIcons", call.arg, Throws("WriteError"))
    /\ UNCHANGED <<popupVars, pageVars, timerVars, png, call, deflate, files>>

\* The loop has exited: generateIcons resolves.
GenerateIconsReturn ==
    /\ icons.pc = "exit"
    /\ icons' = [icons EXCEPT !.pc = "done"]
    /\ ret' = Returned("generateIcons", call.arg, "undefined")
    /\ UNCHANGED <<popupVars, pageVars, timerVars, png, call, deflate, files>>

Next ==
    \/ CallAdler32
    \/ CallCrc32
    \/ CallCreateChunk
    \/ CallCreateSimplePng
    \/ CallIhdrData
    \/ DeflateEnter
    \/ DeflateBlock
    \/ DeflateReturn
    \/ GenerateIconsEnter
    \/ GenerateIconsSvgWritten
    \/ GenerateIconsPngWritten
    \/ GenerateIconsWriteFails
    \/ GenerateIconsReturn

Spec == Init /\ [][Next]_vars

\* The runs that call simpleDeflate.
InitLoop == Init /\ call.fn = "simpleDeflate"

NextLoop ==
    \/ DeflateEnter
    \/ DeflateBlock
    \/ DeflateReturn

\* simpleDeflate is synchronous: once entered, its loop runs each pass and
\* its exit without waiting for anything.
SpecLoop ==
    /\ InitLoop
    /\ [][NextLoop]_vars
    /\ WF_vars(DeflateBlock)
    /\ WF_vars(DeflateReturn)

----------------------------------------------------------------------------
(* Two activations of createSimplePng, statement by statement *)

\* The sizes the two activations are called with.
PairSizes == {Num(n) : n \in 0..MaxSize}

\* The frame of an activation when it is called: the parameter is bound and
\* no local has been set.
Frame(size) ==
    [pc |-> "enter", size |-> size, width |-> Num(0), height |-> Num(0),
     ihdrData |-> <<>>, pixels |-> <<>>, y |-> 0, compressed |-> <<>>,
     chunks |-> <<>>, pushed |-> 0, threw |-> "none", value |-> <<>>]

\* One pass of the outer loop if pixels were a single array of the module:
\* the row is pushed onto the array every activation reads.
PushRow_SharedPixels(frames, p) ==
    [q \in DOMAIN frames |->
        [frames[q] EXCEPT
            !.pixels = @ \o <<0>> \o PixelColumns(0, frames[p].width),
            !.y = IF q = p THEN @ + 1 ELSE @]]

\* One pass of the outer loop in activation p: the filter byte and the
\* pixels of the row are pushed onto p's own pixels, and y++.
PushRow(frames, p) ==
    [frames EXCEPT
        ![p].pixels = @ \o <<0>> \o PixelColumns(0, frames[p].width),
        ![p].y = @ + 1]

\* The chunks in the order they are pushed.
ChunkOf(f, k) ==
    CASE k = 1 -> createChunk(IHDR, f.ihdrData)
      [] k = 2 -> createChunk(IDAT, f.compressed)
      [] k = 3 -> createChunk(IEND, <<>>)

InitPair ==
    /\ call = NoCall
    /\ deflate = Idle
    /\ icons = Idle
    /\ files = <<>>
    /\ ret = NoCall
    /\ storage = <<>>
    /\ tasks = <<>>
    /\ removedSince = {}
    /\ authorsList = <<>>
    /\ NoTab
    /\ now = 0
    /\ currentFilter = "pending"
    /\ searchQuery = <<>>
    /\ container = <<>>
    /\ timeoutId = 0
    /\ timers = {}
    /\ wrapperCalls = <<>>
    /\ fnRuns = <<>>
    /\ png \in [1..2 -> {Frame(size) : size \in PairSizes}]

\* width, height and ihdrData are set; pixels is a new empty array.
PngEnter(p) ==
    /\ png[p].pc = "enter"
    /\ LET width  == png[p].size
           height == png[p].size
       IN  png' = [png EXCEPT ![p].pc = "rows",
                              ![p].width = width,
                              ![p].height = height,
                              ![p].ihdrData = IhdrData(width, height),
                              ![p].pixels = <<>>,
                              ![p].y = 0]
    /\ UNCHANGED <<popupVars, pageVars, timerVars, call, deflate, icons, files, ret>>

\* One pass of the loop over y.
PngRow(p) ==
    /\ png[p].pc = "rows"
    /\ LessThan(png[p].y, png[p].height)
    /\ png' = PushRow(png, p)
    /\ UNCHANGED <<popupVars, pageVars, timerVars, call, deflate, icons, files, ret>>

\* The loop over y exits: compressed = simpleDeflate(pixels), and chunks is
\* a new empty array.
PngCompress(p) ==
    /\ png[p].pc = "rows"
    /\ ~LessThan(png[p].y, png[p].height)
    /\ png' = [png EXCEPT ![p].pc = "chunks",
                          ![p].compressed = simpleDeflate(png[p].pixels),
                          ![p].chunks = <<>>,
                          ![p].pushed = 0]
    /\ UNCHANGED <<popupVars, pageVars, timerVars, call, deflate, icons, files, ret>>

\* chunks.push(...createChunk(...)), for IHDR, IDAT and IEND in turn; a
\* push of more than MaxArguments elements completes or throws, as the
\* engine decides.
PngPushChunk(p) ==
    /\ png[p].pc = "chunks"
    /\ png[p].pushed < 3
    /\ LET chunk == ChunkOf(png[p], png[p].pushed + 1)
       IN  \/ png' = [png EXCEPT ![p].chunks = @ \o chunk,
                                 ![p].pushed = @ + 1]
           \/ /\ SpreadMayThrow(chunk)
              /\ png' = [png EXCEPT ![p].pc = "thrown",
                                    ![p].threw = "RangeError"]
    /\ UNCHANGED <<popupVars, pageVars, timerVars, call, deflate, icons, files, ret>>

\* return new Uint8Array([...signature, ...chunks]).
PngReturn(p) ==
    /\ png[p].pc = "chunks"
    /\ png[p].pushed = 3
    /\ png' = [png EXCEPT ![p].pc = "done",
                          ![p].value = Uint8Array(Signature \o png[p].chunks)]
    /\ UNCHANGED <<popupVars, pageVars, timerVars, call, deflate, icons, files, ret>>

NextPair ==
    \E p \in 1..2 :
        \/ PngEnter(p)
        \/ PngRow(p)
        \/ PngCompress(p)
        \/ PngPushChunk(p)
        \/ PngReturn(p)

SpecPair == InitPair /\ [][NextPair]_vars

----------------------------------------------------------------------------
(* The popup: addAuthor, removeAuthor and the background's checkNewArticles
   over chrome.storage.local *)

\* A string is the sequence of its characters.  An author is the record of
\* its username; displayName, profilePicture and lastChecked are not read by
\* any test the handlers make.
MAX_AUTHORS == 3


MaxTasks == 2

ToLowerChar(c) ==
    CASE c = "A" -> "a"
      [] c = "B" -> "b"
      [] c = "C" -> "c"
      [] c = "D" -> "d"
      [] OTHER -> c

\* s.toLowerCase()
toLowerCase(s) == [i \in 1..Len(s) |-> ToLowerChar(s[i])]

\* s.replace('@', ''): the first '@' is taken out.
RECURSIVE ReplaceAt(_)
ReplaceAt(s) ==
    IF s = <<>> THEN <<>>
    ELSE IF Head(s) = "@" THEN Tail(s)
    ELSE <<Head(s)>> \o ReplaceAt(Tail(s))

\* s.trim(): the spaces at both ends are taken off.
RECURSIVE trim(_)
trim(s) ==
    IF s = <<>> THEN <<>>
    ELSE IF Head(s) = " " THEN trim(Tail(s))
    ELSE IF s[Len(s)] = " " THEN trim(SubSeq(s, 1, Len(s) - 1))
    ELSE s

\* username.replace('@', '').trim().toLowerCase()
CleanUsername(username) == toLowerCase(trim(ReplaceAt(username)))

\* What can be typed into the author input: four users in several
\* spellings, and inputs that clean to the empty string.  The handlers call
\* addAuthor only with a non-empty input.
TypedUsernames ==
    {<<"a">>, <<"@", "a">>, <<"A">>, <<"b">>, <<" ", "b", " ">>, <<"c">>,
     <<"@", "C">>, <<"d">>, <<"@">>, <<" ">>}

\* The user names addAuthor can store: the cleaned inputs.
StoredUsernames == {CleanUsername(u) : u \in TypedUsernames} \ {<<>>}

Author(username) == [username |-> username]

\* authors.some(a => a.username.toLowerCase() === name)
Some(authors, name) ==
    \E k \in 1..Len(authors) : toLowerCase(authors[k].username) = name

\* authors.filter(a => a.username.toLowerCase() !== name)
Filter(authors, name) ==
    LET Keep(a) == toLowerCase(a.username) # name
    IN  SelectSeq(authors, Keep)

\* entry.split(':')[0]: the characters before the first ':'.
RECURSIVE SplitHead(_)
SplitHead(entry) ==
    IF entry = <<>> \/ Head(entry) = ":" THEN <<>>
    ELSE <<Head(entry)>> \o SplitHead(Tail(entry))

\* The test of addAuthor with > in place of >=.
AtLimit_Greater(authors) == Len(authors) > MAX_AUTHORS

\* authors.length >= MAX_AUTHORS
AtLimit(authors) == Len(authors) >= MAX_AUTHORS

Free == [fn |-> "none"]

\* A handler that is called takes the first slot that is free.
FreeSlot(i) ==
    /\ tasks[i] = Free
    /\ \A j \in 1..(i - 1) : tasks[j] # Free

\* The handler in slot i returns: the handlers called after it move up, so
\* that the running handlers are listed in the order of their calls.
Finish(i) ==
    [j \in DOMAIN tasks |->
        IF j < i THEN tasks[j]
        ELSE IF j < Len(tasks) THEN tasks[j + 1]
        ELSE Free]

\* storage.get(keys) resolves with the values the keys have at that moment.
Get(key) == storage[key]

\* The remove buttons loadAuthors renders, one for each author of the list
\* in order, each with the username in data-username.
AuthorButtons(authors) == [k \in 1..Len(authors) |-> authors[k].username]

\* loadAuthors() is called: storage.get is awaited.
LoadAuthors == [fn |-> "loadAuthors", pc |-> "get"]

\* An addAuthor call for name is between its invocation and its write.
AddInFlight(name) ==
    \E i \in DOMAIN tasks :
        tasks[i].fn = "addAuthor" /\ tasks[i].cleanUsername = name

InitPopup ==
    /\ call = NoCall
    /\ deflate = Idle
    /\ icons = Idle
    /\ files = <<>>
    /\ ret = NoCall
    /\ png = <<>>
    /\ storage = [followed_authors |-> <<>>, seen_articles |-> <<>>,
                  new_articles |-> <<>>]
    /\ tasks = [i \in 1..MaxTasks |-> Free]
    /\ removedSince = {}
    /\ authorsList = <<>>
    /\ NoTab
    /\ now = 0
    /\ currentFilter = "pending"
    /\ searchQuery = <<>>
    /\ container = <<>>
    /\ timeoutId = 0
    /\ timers = {}
    /\ wrapperCalls = <<>>
    /\ fnRuns = <<>>

\* addAuthor(username) is called: the name is cleaned, and unless it is
\* empty storage.get is awaited.
AddAuthorCall(i, username) ==
    /\ FreeSlot(i)
    /\ LET cleanUsername == CleanUsername(username)
       IN  IF cleanUsername = <<>>
           THEN UNCHANGED <<tasks, removedSince>>
           ELSE /\ tasks' = [tasks EXCEPT ![i] =
                                [fn |-> "addAuthor", pc |-> "get",
                                 cleanUsername |-> cleanUsername,
                                 authors |-> <<>>]]
                /\ removedSince' = removedSince \ {cleanUsername}
    /\ UNCHANGED <<encoderVars, pageVars, timerVars, storage, authorsList>>

\* storage.get resolves: the list is read and the two tests are made; the
\* call returns, or fetchUserInfo is awaited.
AddAuthorRead(i) ==
    /\ tasks[i].fn = "addAuthor"
    /\ tasks[i].pc = "get"
    /\ LET authors == Get("followed_authors")
       IN  IF AtLimit(authors) \/ Some(authors, tasks[i].cleanUsername)
           THEN tasks' = Finish(i)
           ELSE tasks' = [tasks EXCEPT ![i].pc = "fetch",
                                       ![i].authors = authors]
    /\ UNCHANGED <<encoderVars, pageVars, timerVars, storage, removedSince, authorsList>>

\* fetchUserInfo resolves: the author is pushed onto the list that was
\* read, and storage.set is called with the list and awaited.
AddAuthorFetched(i) ==
    /\ tasks[i].fn = "addAuthor"
    /\ tasks[i].pc = "fetch"
    /\ tasks' = [tasks EXCEPT
                    ![i].pc = "set",
                    ![i].authors = Append(tasks[i].authors,
                                          Author(tasks[i].cleanUsername))]
    /\ UNCHANGED <<encoderVars, pageVars, timerVars, storage, removedSince, authorsList>>

\* storage.set is done: the list is written, loadAuthors() is called and
\* addAuthor returns.
AddAuthorWrite(i) ==
    /\ tasks[i].fn = "addAuthor"
    /\ tasks[i].pc = "set"
    /\ storage' = [storage EXCEPT !.followed_authors = tasks[i].authors]
    /\ tasks' = [tasks EXCEPT ![i] = LoadAuthors]
    /\ UNCHANGED <<encoderVars, pageVars, timerVars, removedSince, authorsList>>

\* storage.get of loadAuthors resolves: the remove buttons of the authors
\* read are rendered in place of those shown.
LoadAuthorsRender(i) ==
    /\ tasks[i] = LoadAuthors
    /\ authorsList' = AuthorButtons(Get("followed_authors"))
    /\ tasks' = Finish(i)
    /\ UNCHANGED <<encoderVars, pageVars, timerVars, storage, removedSince>>

\* A remove button that is shown is clicked: removeAuthor(username), with
\* the user name of the button.
RemoveAuthorCall(i, username) ==
    /\ FreeSlot(i)
    /\ \E k \in 1..Len(authorsList) : authorsList[k] = username
    /\ tasks' = [tasks EXCEPT ![i] =
                     [fn |-> "removeAuthor", pc |-> "get",
                      normalizedUsername |-> toLowerCase(username),
                      authors |-> <<>>, seenArticles |-> <<>>,
                      newArticles |-> <<>>]]
    /\ UNCHANGED <<encoderVars, pageVars, timerVars, storage, removedSince, authorsList>>

\* storage.get resolves: the three lists are read and filtered, and
\* storage.set is called with the filtered lists and awaited.
RemoveAuthorRead(i) ==
    /\ tasks[i].fn = "removeAuthor"
    /\ tasks[i].pc = "get"
    /\ LET name == tasks[i].normalizedUsername
           SeenKept(entry) == SplitHead(entry) # name
           NewKept(a) == toLowerCase(a.author) # name
       IN  tasks' = [tasks EXCEPT
               ![i].pc = "set",
               ![i].authors = Filter(Get("followed_authors"), name),
               ![i].seenArticles = SelectSeq(Get("seen_articles"), SeenKept),
               ![i].newArticles = SelectSeq(Get("new_articles"), NewKept)]
    /\ UNCHANGED <<encoderVars, pageVars, timerVars, storage, removedSince, authorsList>>

\* storage.set is done: the filtered lists are written, removeAuthor
\* returns and the click handler calls loadAuthors().  The removal is
\* recorded in the history unless an addAuthor call for the same user is
\* under way.
RemoveAuthorWrite(i) ==
    /\ tasks[i].fn = "removeAuthor"
    /\ tasks[i].pc = "set"
    /\ LET name == tasks[i].normalizedUsername
       IN  /\ storage' =
                  [storage EXCEPT
                      !.followed_authors = tasks[i].authors,
                      !.seen_articles = tasks[i].seenArticles,
                      !.new_articles = tasks[i].newArticles]
           /\ removedSince' = IF AddInFlight(name) THEN removedSince
                              ELSE removedSince \cup {name}
    /\ tasks' = [tasks EXCEPT ![i] = LoadAuthors]
    /\ UNCHANGED <<encoderVars, pageVars, timerVars, authorsList>>

\* The alarm fires or the popup asks for a check: checkNewArticles().
CheckNewArticlesCall(i) ==
    /\ FreeSlot(i)
    /\ tasks' = [tasks EXCEPT ![i] = [fn |-> "checkNewArticles", pc |-> "get"]]
    /\ UNCHANGED <<encoderVars, pageVars, timerVars, storage, removedSince, authorsList>>

\* storage.get resolves and API_KEY is missing: the lists are read, and the
\* function returns before the loop over the authors and before its write.
CheckNewArticlesRead(i) ==
    /\ tasks[i].fn = "checkNewArticles"
    /\ tasks[i].pc = "get"
    /\ LET authors == Get("followed_authors")
       IN  /\ KeyMissing(API_KEY)
           /\ tasks' = Finish(i)
    /\ UNCHANGED <<encoderVars, pageVars, timerVars, storage, removedSince, authorsList>>

NextPopup ==
    \E i \in 1..MaxTasks :
        \/ \E username \in TypedUsernames : AddAuthorCall(i, username)
        \/ AddAuthorRead(i)
        \/ AddAuthorFetched(i)
        \/ AddAuthorWrite(i)
        \/ LoadAuthorsRender(i)
        \/ \E username \in StoredUsernames : RemoveAuthorCall(i, username)
        \/ RemoveAuthorRead(i)
        \/ RemoveAuthorWrite(i)
        \/ CheckNewArticlesCall(i)
        \/ CheckNewArticlesRead(i)

SpecPopup == InitPopup /\ [][NextPopup]_vars

----------------------------------------------------------------------------
(* Independent readers used to state the properties *)

\* A standard inflater restricted to stored blocks, reading the stream s from
\* position pos with out already produced: it reads blocks until the one with
\* BFINAL = 1 and fails on a stream that ends early or has a bad block header.
RECURSIVE InflateFrom(_, _, _)
InflateFrom(s, pos, out) ==
    IF pos + 4 > Len(s) THEN [ok |-> FALSE, out |-> out, next |-> pos]
    ELSE LET ctrl == s[pos]
             len  == s[pos + 1] + 256 * s[pos + 2]
             nlen == s[pos + 3] + 256 * s[pos + 4]
             all  == out \o SubSeq(s, pos + 5, pos + 4 + len)
         IN  IF ctrl \notin {0, 1} \/ len + nlen # 65535 \/ pos + 4 + len > Len(s)
             THEN [ok |-> FALSE, out |-> out, next |-> pos]
             ELSE IF ctrl = 1 THEN [ok |-> TRUE, out |-> all, next |-> pos + 5 + len]
             ELSE InflateFrom(s, pos + 5 + len, all)

\* Skip the 2-byte header, then read the blocks.
Inflate(s) ==
    IF Len(s) < 2 THEN [ok |-> FALSE, out |-> <<>>, next |-> 1]
    ELSE InflateFrom(s, 3, <<>>)

\* The control bytes of the blocks that lie between the 2-byte header and the
\* 4-byte trailer of the stream s, found by walking the LEN fields from pos;
\* -1 stands for a block that does not fit.
RECURSIVE BlockControls(_, _)
BlockControls(s, pos) ==
    IF pos > Len(s) - 4 THEN <<>>
    ELSE IF pos + 4 > Len(s) - 4 THEN <<-1>>
    ELSE LET len == s[pos + 1] + 256 * s[pos + 2]
         IN  IF pos + 4 + len > Len(s) - 4 THEN <<-1>>
             ELSE <<s[pos]>> \o BlockControls(s, pos + 5 + len)

\* The IEEE 802.3 generator x^32 + x^26 + x^23 + ... + x + 1, without x^32.
PolyExponents == {0, 1, 2, 4, 5, 7, 8, 10, 11, 12, 16, 22, 23, 26}

\* The reference CRC-32 as a bit-serial shift register: reg is the sequence
\* of its 32 bits, reg[1] the one that leaves first (the reflected form).  One
\* message bit is fed: the register shifts, and the generator is added when
\* the bit that left differs from the message bit.
RefCrcBit(reg, inbit) ==
    LET fb      == reg[1] # inbit
        shifted == Tail(reg) \o <<FALSE>>
    IN  SubSeq([i \in 1..32 |-> shifted[i] # (fb /\ (32 - i) \in PolyExponents)],
               1, 32)

\* The register after the bits k..7 of byte, least significant first.
RECURSIVE RefCrcByte(_, _, _)
RefCrcByte(reg, byte, k) ==
    IF k > 7 \/ Len(reg) # 32 THEN reg
    ELSE RefCrcByte(RefCrcBit(reg, (byte \div (2 ^ k)) % 2 = 1), byte, k + 1)

RECURSIVE RefCrcReg(_, _, _)
RefCrcReg(data, i, reg) ==
    IF i > Len(data) \/ Len(reg) # 32 THEN reg
    ELSE RefCrcReg(data, i + 1, RefCrcByte(reg, data[i], 0))

\* The 32 bits of the reference CRC-32 of data, bit i at index i (0..31):
\* register preset to ones, result complemented.
RefCrc32Bits(data) ==
    LET reg == RefCrcReg(data, 1, [i \in 1..32 |-> TRUE])
    IN  [i \in 0..31 |-> ~reg[i + 1]]

\* Bit i (0..31) of the int32 x in two's complement.
BitOf(x, i) == IF i = 31 THEN x < 0 ELSE (x \div (2 ^ i)) % 2 = 1

\* The byte made of bits lo..lo+7 of the bit vector bits.
RECURSIVE ByteOfBits(_, _, _)
ByteOfBits(bits, lo, k) ==
    IF k > 7 THEN 0
    ELSE (IF bits[lo + k] THEN 2 ^ k ELSE 0) + ByteOfBits(bits, lo, k + 1)

\* The four bytes of a 32-bit vector, most significant first.
BigEndianOfBits(bits) ==
    <<ByteOfBits(bits, 24, 0), ByteOfBits(bits, 16, 0),
      ByteOfBits(bits, 8, 0), ByteOfBits(bits, 0, 0)>>

\* The number x is a value of [0, 2^32).  Every number of the model is below
\* 2^31, so only the lower end can fail.
InU32(x) == x >= 0

----------------------------------------------------------------------------
(* Claims about simpleDeflate, adler32 and crc32 *)

DeflateReturned == ret.fn = "simpleDeflate"

\* C1: decoding the stream returned by simpleDeflate(b) with a stored-block
\* inflater succeeds and yields exactly b, for every input b, the empty one
\* included.
C1_RoundTrip ==
    DeflateReturned =>
        LET r == Inflate(ret.value) IN r.ok /\ r.out = ret.arg

\* C2: for the empty input simpleDeflate returns
\* 78 01 01 00 00 FF FF 00 00 00 01.
C2_EmptyStream ==
    (DeflateReturned /\ ret.arg = <<>>) =>
        ret.value = <<120, 1, 1, 0, 0, 255, 255, 0, 0, 0, 1>>

\* C3: the stream has at least one block, its last block has control byte 1
\* and every earlier block has control byte 0, for every input.
C3_OneFinalBlock ==
    DeflateReturned =>
        LET cs == BlockControls(ret.value, 3)
        IN  /\ Len(cs) >= 1
            /\ cs[Len(cs)] = 1
            /\ \A i \in 1..(Len(cs) - 1) : cs[i] = 0

\* C4: the number adler32 returns lies in [0, 2^32).
C4_AdlerInRange ==
    ret.fn = "adler32" => InU32(ret.value)

\* C5: the number crc32 returns lies in [0, 2^32) and its 32 bits are those of
\* the reference CRC-32 of the input; crc32([]) = 0.
C5_CrcIsReference ==
    ret.fn = "crc32" =>
        /\ InU32(ret.value)
        /\ \A i \in 0..31 : BitOf(ret.value, i) = RefCrc32Bits(ret.arg)[i]
        /\ (ret.arg = <<>> => ret.value = 0)

\* What holds of the code next to C1, C3 and C5: the round trip and the block
\* structure hold for every non-empty input, and the 32 bits crc32 returns are
\* the reference bits (the number they are read as is what differs).
NonEmptyRoundTrip ==
    (DeflateReturned /\ ret.arg # <<>>) =>
        LET r == Inflate(ret.value)
        IN  r.ok /\ r.out = ret.arg /\ r.next = Len(ret.value) - 3

NonEmptyOneFinalBlock ==
    (DeflateReturned /\ ret.arg # <<>>) =>
        LET cs == BlockControls(ret.value, 3)
        IN  /\ Len(cs) >= 1
            /\ cs[Len(cs)] = 1
            /\ \A i \in 1..(Len(cs) - 1) : cs[i] = 0

CrcBitsAreReference ==
    ret.fn = "crc32" =>
        \A i \in 0..31 : BitOf(ret.value, i) = RefCrc32Bits(ret.arg)[i]

----------------------------------------------------------------------------
(* Claims about createChunk and createSimplePng *)

ChunkReturned == ret.fn = "createChunk"
PngCalled == ret.fn = "createSimplePng"
PngReturned == PngCalled /\ ret.threw = "none"

\* A type tag of exactly four ASCII characters.
IsAscii4(type) == Len(type) = 4 /\ \A i \in 1..4 : type[i] \in 0..127

\* A type tag of four characters that are each one byte.
IsByte4(type) == Len(type) = 4 /\ \A i \in 1..4 : type[i] \in 0..255

\* A positive integer size.
ValidSize(size) ==
    (size.high = 1 \/ size.num > 0) /\ size.num % size.den = 0

\* The big-endian number in s[pos..pos+3]; -1 when it is 2^31 or more.
ReadBigEndian(s, pos) ==
    IF s[pos] >= 128 THEN -1
    ELSE ((s[pos] * 256 + s[pos + 1]) * 256 + s[pos + 2]) * 256 + s[pos + 3]

\* The type tags of the chunks of s from pos on, walking the length fields;
\* <<-1>> stands for a chunk that does not fit in what is left.
RECURSIVE ChunkTags(_, _)
ChunkTags(s, pos) ==
    IF pos > Len(s) THEN <<>>
    ELSE IF pos + 11 > Len(s) THEN << <<-1>> >>
    ELSE LET n == ReadBigEndian(s, pos)
         IN  IF n < 0 \/ pos + 11 + n > Len(s) THEN << <<-1>> >>
             ELSE <<SubSeq(s, pos + 4, pos + 7)>> \o ChunkTags(s, pos + 12 + n)

\* C6: for a four-character type tag (each character one byte) createChunk
\* returns 12 + len(data) bytes: len(data) big-endian, the type, the data, and
\* the big-endian reference CRC-32 of type followed by data.
C6_ChunkLayout ==
    (ChunkReturned /\ IsByte4(ret.arg.type)) =>
        LET data == ret.arg.data
            n    == Len(data)
            v    == ret.value
        IN  /\ Len(v) = 12 + n
            /\ ReadBigEndian(v, 1) = n
            /\ SubSeq(v, 5, 8) = ret.arg.type
            /\ SubSeq(v, 9, 8 + n) = data
            /\ SubSeq(v, 9 + n, 12 + n)
                   = BigEndianOfBits(RefCrc32Bits(ret.arg.type \o data))

\* C6 is exercised: a chunk with data whose CRC has its top bit set.
C6_Witness ==
    /\ ChunkReturned
    /\ ret.arg.type = IDAT
    /\ Len(ret.arg.data) = MaxLen
    /\ ret.value[Len(ret.value) - 3] >= 128

\* C7: createChunk fails with InvalidChunkType, returning nothing, when the
\* type tag is not exactly four ASCII characters.
C7_InvalidChunkType ==
    (ChunkReturned /\ ~IsAscii4(ret.arg.type)) =>
        ret.threw = "InvalidChunkType"

\* C8: createSimplePng fails with InvalidDimension when the size is zero,
\* negative or not an integer, and no icon file is written for such a size.
C8_InvalidDimension ==
    /\ (PngCalled /\ ~ValidSize(ret.arg)) => ret.threw = "InvalidDimension"
    /\ \A p \in DOMAIN files : p.ext = "png" => ValidSize(p.size)

\* The buffer v is the signature followed by exactly the chunks IHDR, IDAT,
\* IEND, the walk over the length fields ending exactly at the end of v.
ThreeChunks(v) ==
    /\ SubSeq(v, 1, 8) = <<137, 80, 78, 71, 13, 10, 26, 10>>
    /\ ChunkTags(v, 9)
           = << <<73, 72, 68, 82>>, <<73, 68, 65, 84>>, <<73, 69, 78, 68>> >>

\* The last 12 bytes of v are 00 00 00 00 49 45 4E 44 AE 42 60 82.
EndsWithIend(v) ==
    /\ Len(v) >= 12
    /\ SubSeq(v, Len(v) - 11, Len(v))
           = <<0, 0, 0, 0, 73, 69, 78, 68, 174, 66, 96, 130>>

\* C9: for every positive size the bytes createSimplePng returns are the
\* signature followed by exactly the chunks IHDR, IDAT, IEND, and the walk
\* over the length fields ends exactly at the end of the buffer; so is every
\* icon file generateIcons has written.
C9_ThreeChunks ==
    /\ (PngReturned /\ ret.arg.num > 0) => ThreeChunks(ret.value)
    /\ \A p \in DOMAIN files : p.ext = "png" => ThreeChunks(files[p])

\* C9 is exercised: the 16 x 16 icon has been encoded.
C9_Witness == PngReturned /\ ret.arg = Num(16) /\ Len(ret.value) > 800

\* C10: for every size the last 12 bytes createSimplePng returns are
\* 00 00 00 00 49 45 4E 44 AE 42 60 82, and so are the last 12 bytes of
\* every icon file generateIcons has written.
C10_IendBytes ==
    /\ PngReturned => EndsWithIend(ret.value)
    /\ \A p \in DOMAIN files : p.ext = "png" => EndsWithIend(files[p])

\* C10 is exercised: an image of more than one row and column was encoded.
C10_Witness == PngReturned /\ ret.arg = Num(2) /\ Len(ret.value) > 12

----------------------------------------------------------------------------
(* Claims about the header and the pixel data of createSimplePng *)

HeaderReturned == ret.fn = "ihdrData"

\* The unsigned big-endian number in s[pos..pos+3], as a size.
DecodeBigEndian(s, pos) ==
    [num  |-> (((s[pos] % 128) * 256 + s[pos + 1]) * 256 + s[pos + 2]) * 256
                  + s[pos + 3],
     den  |-> 1,
     high |-> s[pos] \div 128]

\* The 13 bytes d are the header payload of a size x size image: both
\* dimensions decode big-endian to size, then 8, 2, 0, 0, 0.
IsHeaderOf(d, size) ==
    /\ Len(d) = 13
    /\ \A i \in 1..13 : d[i] \in 0..255
    /\ DecodeBigEndian(d, 1) = size
    /\ DecodeBigEndian(d, 5) = size
    /\ SubSeq(d, 9, 13) = <<8, 2, 0, 0, 0>>

\* The first chunk of the buffer v has the length field 00 00 00 0D, the
\* type IHDR and the header payload of size.
HasHeaderChunk(v, size) ==
    /\ Len(v) >= 33
    /\ SubSeq(v, 9, 12) = <<0, 0, 0, 13>>
    /\ SubSeq(v, 13, 16) = <<73, 72, 68, 82>>
    /\ IsHeaderOf(SubSeq(v, 17, 29), size)

\* C11: for every integer size from 1 to 2^32 - 1 the header payload is 13
\* bytes, width then height as 4 bytes each that decode big-endian to the
\* size, then 8, 2, 0, 0, 0; and in every buffer createSimplePng returns for
\* a positive integer size, and every icon file written, the IHDR chunk has
\* the length field 00 00 00 0D followed by that payload.
C11_IhdrLayout ==
    /\ (HeaderReturned /\ ValidSize(ret.arg)) => IsHeaderOf(ret.value, ret.arg)
    /\ (PngReturned /\ ValidSize(ret.arg)) => HasHeaderChunk(ret.value, ret.arg)
    /\ \A p \in DOMAIN files : p.ext = "png" => HasHeaderChunk(files[p], p.size)

\* C11 is exercised: the header of a size above 2^31 whose four bytes all
\* differ (3000000000 = B2 D0 5E 00) has been computed.
C11_Witness ==
    /\ HeaderReturned
    /\ ret.arg = High(852516352)
    /\ SubSeq(ret.value, 1, 4) = <<178, 208, 94, 0>>

\* What a decoder gets by inflating the data of the second chunk of v.
RawScanlines(v) ==
    Inflate(SubSeq(v, 42, 41 + ReadBigEndian(v, 34)))

\* raw is n rows of 1 + 3n bytes: the filter byte 0, then n pixels
\* (29, 155, 240).
IsConstantImage(raw, n) ==
    /\ Len(raw) = n * (1 + n * 3)
    /\ \A y \in 0..(n - 1) :
           LET row == y * (1 + n * 3)
           IN  /\ raw[row + 1] = 0
               /\ \A x \in 0..(n - 1) :
                      /\ raw[row + 1 + x * 3 + 1] = 29
                      /\ raw[row + 1 + x * 3 + 2] = 155
                      /\ raw[row + 1 + x * 3 + 3] = 240

\* The IDAT chunk of v inflates to the scanlines of an n x n image of the
\* constant colour.
DecodesToConstantImage(v, n) ==
    /\ SubSeq(v, 38, 41) = <<73, 68, 65, 84>>
    /\ RawScanlines(v).ok
    /\ IsConstantImage(RawScanlines(v).out, n)

\* C12: for every positive integer size the scanline buffer that
\* createSimplePng compresses has size * (1 + size * 3) bytes, each row the
\* filter byte 0 followed by size pixels (29, 155, 240): inflating the IDAT
\* chunk of the returned buffer, and of every icon file written, gives
\* exactly those bytes.
C12_Scanlines ==
    /\ (PngReturned /\ ValidSize(ret.arg)) =>
           DecodesToConstantImage(ret.value, ret.arg.num \div ret.arg.den)
    /\ \A p \in DOMAIN files :
           p.ext = "png" => DecodesToConstantImage(files[p], p.size.num)

\* C12 is exercised: an image of several rows has been encoded, and its
\* IDAT chunk carries a stream for 3 * (1 + 9) scanline bytes.
C12_Witness ==
    /\ PngReturned
    /\ ret.arg = Num(3)
    /\ ReadBigEndian(ret.value, 34) = 2 + 5 + 30 + 4

----------------------------------------------------------------------------
(* Claims about the blocks, the header and the trailer of simpleDeflate *)

\* The blocks of the stream s from pos on, read as a decoder frames them:
\* the control byte, the four bytes after it, and the LEN bytes that LEN
\* announces, up to the 4-byte trailer.  Each block is recorded with the
\* position of its control byte; fits is FALSE, and the walk ends, at a
\* block that does not lie before the trailer.
RECURSIVE Blocks(_, _)
Blocks(s, pos) ==
    IF pos > Len(s) - 4 THEN <<>>
    ELSE IF pos + 4 > Len(s) - 4 THEN <<[at |-> pos, fits |-> FALSE]>>
    ELSE LET len == s[pos + 1] + 256 * s[pos + 2]
         IN  IF pos + 4 + len > Len(s) - 4
             THEN <<[at |-> pos, fits |-> FALSE]>>
             ELSE <<[at |-> pos, fits |-> TRUE, ctrl |-> s[pos],
                     len |-> len, b |-> SubSeq(s, pos + 1, pos + 4)]>>
                  \o Blocks(s, pos + 5 + len)

\* The number of payload bytes in the blocks bs[1..k].
RECURSIVE PayloadBefore(_, _)
PayloadBefore(bs, k) ==
    IF k = 0 THEN 0 ELSE PayloadBefore(bs, k - 1) + bs[k].len

\* The payload sizes of the blocks bs, in order.
RECURSIVE BlockLens(_)
BlockLens(bs) ==
    IF bs = <<>> THEN <<>> ELSE <<Head(bs).len>> \o BlockLens(Tail(bs))

\* The block sizes of the streams for the inputs of 65535, 65536 and 200000
\* bytes.
LongBlockLens ==
    <<BlockLens(Blocks(simpleDeflate(Pattern(65535)), 3)),
      BlockLens(Blocks(simpleDeflate(Pattern(65536)), 3)),
      BlockLens(Blocks(simpleDeflate(Pattern(200000)), 3))>>

\* C13: the blocks of the stream carry at most 65535 payload bytes each,
\* every block but the last carries exactly 65535, and a non-empty input of
\* n bytes gives ceil(n / 65535) blocks: one for 65535 bytes, two for 65536,
\* four for 200000.
C13_BlockCount ==
    (DeflateReturned /\ ret.arg # <<>>) =>
        LET n  == Len(ret.arg)
            bs == Blocks(ret.value, 3)
        IN  /\ \A i \in 1..Len(bs) : bs[i].fits /\ bs[i].len <= 65535
            /\ \A i \in 1..(Len(bs) - 1) : bs[i].len = 65535
            /\ Len(bs) * 65535 >= n
            /\ (Len(bs) - 1) * 65535 < n
            /\ PayloadBefore(bs, Len(bs)) = n
            /\ (n = 65535 => Len(bs) = 1)
            /\ (n = 65536 => Len(bs) = 2)
            /\ (n = 200000 => Len(bs) = 4)
            /\ LongBlockLens = <<<<65535>>, <<65535, 1>>,
                                 <<65535, 65535, 65535, 3395>>>>

\* C13 is exercised: an input of MaxRun bytes has been encoded into one
\* final block of MaxRun bytes, followed by the trailer.
C13_Witness ==
    /\ DeflateReturned
    /\ Len(ret.arg) = MaxRun
    /\ Len(ret.value) = 2 + 5 + MaxRun + 4
    /\ ret.value[3] = 1
    /\ ret.value[4] + 256 * ret.value[5] = MaxRun

\* C14: in every stored block of the stream the two bytes after the control
\* byte are LEN, least significant byte first, the next two are its 16-bit
\* one's complement NLEN in the same order (LEN XOR NLEN = 0xFFFF), and LEN
\* is the number of payload bytes that follow: the payload is the next LEN
\* bytes of the input and the next block, or the trailer, starts right
\* after it.
C14_LenAndNlen ==
    DeflateReturned =>
        LET data == ret.arg
            s    == ret.value
            bs   == Blocks(s, 3)
        IN  /\ \A i \in 1..Len(bs) :
                   /\ bs[i].fits
                   /\ bs[i].ctrl \in {0, 1}
                   /\ \A k \in 1..4 : bs[i].b[k] \in 0..255
                   /\ LET len  == bs[i].b[1] + 256 * bs[i].b[2]
                          nlen == bs[i].b[3] + 256 * bs[i].b[4]
                          from == PayloadBefore(bs, i - 1)
                      IN  /\ \A k \in 0..15 : BitOf(len, k) # BitOf(nlen, k)
                          /\ len + nlen = 65535
                          /\ from + len <= Len(data)
                          /\ SubSeq(s, bs[i].at + 5, bs[i].at + 4 + len)
                                 = SubSeq(data, from + 1, from + len)
            /\ PayloadBefore(bs, Len(bs)) = Len(data)
            /\ Len(s) = 2 + 5 * Len(bs) + Len(data) + 4

\* C14 is exercised: a block of three bytes has been emitted with
\* LEN = 03 00 and NLEN = FC FF.
C14_Witness ==
    /\ DeflateReturned
    /\ Len(ret.arg) = 3
    /\ SubSeq(ret.value, 3, 7) = <<1, 3, 0, 252, 255>>

\* The sum of term[i] for i in lo..hi, modulo 65521.
SumMod(term, lo, hi) ==
    LET Run[l \in Nat, h \in Nat] ==
            IF l > h THEN 0
            ELSE IF l = h THEN term[l] % 65521
            ELSE (Run[l, (l + h) \div 2] + Run[((l + h) \div 2) + 1, h]) % 65521
    IN  Run[lo, hi]

\* Adler-32 by its definition (RFC 1950): s1 is 1 plus the sum of the bytes,
\* s2 the sum of the values s1 takes after each byte, both modulo 65521.
\* s2 is taken in closed form: n plus the sum of (n - i + 1) * data[i].
RefAdler(data) ==
    LET n == Len(data)
    IN  [s1 |-> (1 + SumMod(data, 1, n)) % 65521,
         s2 |-> (n + SumMod([i \in 1..n |->
                               ((n - i + 1) % 65521) * data[i]], 1, n)) % 65521]

\* The four bytes of s2 * 65536 + s1, most significant first.
RefAdlerBytes(data) ==
    LET r == RefAdler(data)
    IN  <<r.s2 \div 256, r.s2 % 256, r.s1 \div 256, r.s1 % 256>>

\* C15: for every input the stream starts with 78 01 and ends with four
\* bytes, each in 0..255, that are the Adler-32 of the whole input, most
\* significant byte first, also when the top bit of the checksum is set.
C15_HeaderAndTrailer ==
    DeflateReturned =>
        LET s == ret.value
            n == Len(s)
        IN  /\ n >= 6
            /\ s[1] = 120
            /\ s[2] = 1
            /\ \A i \in (n - 3)..n : s[i] \in 0..255
            /\ SubSeq(s, n - 3, n) = RefAdlerBytes(ret.arg)

\* C15 is exercised: a stream has been returned for an input whose
\* checksum has its top bit set (MaxRun bytes 0xff).
C15_Witness ==
    /\ DeflateReturned
    /\ Len(ret.arg) = MaxRun
    /\ RefAdler(ret.arg).s2 >= 32768
    /\ ret.value[Len(ret.value) - 3] >= 128

\* Bit i of the natural number x.
BitOfNat(x, i) == (x \div (2 ^ i)) % 2 = 1

\* C16: bits 0..15 of the number adler32 returns are the sum a and bits
\* 16..31 are the sum b, a being 1 plus the bytes and b the sum of the
\* values of a, both modulo 65521; adler32([]) = 1 and
\* adler32([0]) = 0x00010001.
C16_AdlerSums ==
    ret.fn = "adler32" =>
        LET r == RefAdler(ret.arg)
        IN  /\ \A i \in 0..15 : BitOf(ret.value, i) = BitOfNat(r.s1, i)
            /\ \A i \in 0..15 : BitOf(ret.value, 16 + i) = BitOfNat(r.s2, i)
            /\ (ret.arg = <<>> => ret.value = 1)
            /\ (ret.arg = <<0>> => ret.value = 65537)

\* C16 is exercised: adler32 has returned for 257 bytes 0xff, where the
\* byte sum 65536 has been reduced to a = 15.
C16_Witness ==
    /\ ret.fn = "adler32"
    /\ Len(ret.arg) = 257
    /\ ret.value % 65536 = 15

InLoop == deflate.pc = "loop"

\* C18: the block loop of simpleDeflate terminates: offset never exceeds
\* the input length, every pass advances it by at least 1 and at most 65535,
\* the loop is left with offset equal to the input length, and a call that
\* has entered the loop leaves it.
C18_LoopTerminates ==
    /\ [](InLoop => deflate.offset \in 0..Len(deflate.data))
    /\ [][(InLoop /\ deflate'.pc = "loop")
              => (deflate'.offset - deflate.offset) \in 1..65535]_vars
    /\ [][(InLoop /\ deflate'.pc = "done")
              => deflate.offset = Len(deflate.data)]_vars
    /\ InLoop ~> (deflate.pc = "done")

\* C18 is exercised: the loop has made a pass over a MaxRun-byte input and
\* has been left.
C18_Witness ==
    /\ deflate.pc = "done"
    /\ DeflateReturned
    /\ Len(ret.arg) = MaxRun
    /\ Len(ret.value) > MaxRun

----------------------------------------------------------------------------
(* Claims about interleaved calls of createSimplePng *)

\* C17: when the statements of two createSimplePng calls are interleaved
\* in any order, each call returns exactly the bytes createSimplePng gives
\* for its size when run alone, and two calls with the same size return the
\* same bytes.
C17_Independent ==
    /\ \A p \in DOMAIN png :
           png[p].pc = "done" =>
               Completes(png[p].value) \in createSimplePng(png[p].size)
    /\ \A p, q \in DOMAIN png :
           (png[p].pc = "done" /\ png[q].pc = "done"
                /\ png[p].size = png[q].size)
               => png[p].value = png[q].value

\* C17 is exercised: both calls have returned, the first for a 2 x 2 image
\* and the second for a 3 x 3 one, so their rows were pushed in turn.
C17_Witness ==
    /\ DOMAIN png = 1..2
    /\ png[1].pc = "done"
    /\ png[2].pc = "done"
    /\ png[1].size = Num(2)
    /\ png[2].size = Num(3)
    /\ Len(png[1].value) < Len(png[2].value)

----------------------------------------------------------------------------
(* Claims about the followed authors *)

\* The user name is in the stored list of followed authors.
Follows(name) == Some(storage.followed_authors, name)

\* C19: once removeAuthor(u) has written storage, u is absent from
\* followed_authors in every later state until addAuthor(u) is called
\* again, whatever other handlers run in between.
C19_StaysRemoved ==
    \A name \in removedSince : ~Follows(name)

\* C20: starting from the empty list, followed_authors in storage never
\* holds more than MAX_AUTHORS entries, under every interleaving of
\* addAuthor, removeAuthor and checkNewArticles.
C20_AtMostMaxAuthors ==
    Len(storage.followed_authors) <= MAX_AUTHORS

\* C20 is exercised: the list is full after one addAuthor call wrote it,
\* while another addAuthor call that read the list of two before that write
\* is still about to push its author and write.
C20_Witness ==
    /\ Len(storage.followed_authors) = MAX_AUTHORS
    /\ \E i \in DOMAIN tasks :
           /\ tasks[i].fn = "addAuthor"
           /\ tasks[i].pc = "fetch"
           /\ Len(tasks[i].authors) = MAX_AUTHORS - 1
           /\ ~Follows(tasks[i].cleanUsername)

----------------------------------------------------------------------------
(* Urls and the keys made of them: hashUrl, normalizeUrl, getStorageKey *)

\* The urls of the runs, each with its UTF-16 code units: two articles, the
\* first one again with a query, and the home timeline.
UrlText ==
    ("https://x.com/home" :>
        <<104, 116, 116, 112, 115, 58, 47, 47, 120, 46, 99, 111, 109, 47,
          104, 111, 109, 101>>)
    @@
    ("https://x.com/a/status/1" :>
        <<104, 116, 116, 112, 115, 58, 47, 47, 120, 46, 99, 111, 109, 47,
          97, 47, 115, 116, 97, 116, 117, 115, 47, 49>>)
    @@ ("https://x.com/a/status/1?s=20" :>
        <<104, 116, 116, 112, 115, 58, 47, 47, 120, 46, 99, 111, 109, 47,
          97, 47, 115, 116, 97, 116, 117, 115, 47, 49, 63, 115, 61, 50, 48>>)
    @@ ("https://x.com/b/status/2" :>
        <<104, 116, 116, 112, 115, 58, 47, 47, 120, 46, 99, 111, 109, 47,
          98, 47, 115, 116, 97, 116, 117, 115, 47, 50>>)

Urls == DOMAIN UrlText

\* ToInt32(a + b) and ToInt32(a - b) for 32-bit a and b, by 16-bit halves.
Sum32(a, b) ==
    LET lo == (a % 65536) + (b % 65536)
        hi == (a \div 65536) + (b \div 65536) + (lo \div 65536)
    IN  U32Lit(hi % 65536, lo % 65536)

Diff32(a, b) ==
    LET lo == (a % 65536) - (b % 65536)
        hi == (a \div 65536) - (b \div 65536) + (lo \div 65536)
    IN  U32Lit(hi % 65536, lo % 65536)

\* The loop of hashUrl from code unit i on:
\* hash = ((hash << 5) - hash) + char; hash = hash & hash.
HashLoop(text, i, hash) ==
    LET Run[k \in Nat, h \in Int] ==
            IF k > Len(text) THEN h
            ELSE Run[k + 1, Sum32(Diff32(Shl32(h, 5), h), text[k])]
    IN  Run[i, hash]

Digits36 ==
    <<"0", "1", "2", "3", "4", "5", "6", "7", "8", "9", "a", "b", "c", "d",
      "e", "f", "g", "h", "i", "j", "k", "l", "m", "n", "o", "p", "q", "r",
      "s", "t", "u", "v", "w", "x", "y", "z">>

\* n.toString(36) for n >= 0
RECURSIVE ToString36(_)
ToString36(n) ==
    IF n < 36 THEN <<Digits36[n + 1]>>
    ELSE ToString36(n \div 36) \o <<Digits36[(n % 36) + 1]>>

\* Math.abs(hash).toString(36); Math.abs(-2^31) is 2^31, "zik0zk".
AbsToString36(hash) ==
    IF hash = MinInt32 THEN <<"z", "i", "k", "0", "z", "k">>
    ELSE ToString36(IF hash < 0 THEN -hash ELSE hash)

\* hashUrl of each url of the runs, computed once.
UrlHash == [url \in Urls |-> AbsToString36(HashLoop(UrlText[url], 1, 0))]

hashUrl(url) == UrlHash[url]

\* The code units before the first '?' or '#'.
RECURSIVE OriginAndPath(_)
OriginAndPath(text) ==
    IF text = <<>> \/ Head(text) \in {63, 35} THEN <<>>
    ELSE <<Head(text)>> \o OriginAndPath(Tail(text))

\* new URL(url) parses the https urls of the runs; any text without a
\* scheme makes it throw.
Parses(text) ==
    Len(text) > 8 /\ SubSeq(text, 1, 8) = <<104, 116, 116, 112, 115, 58, 47, 47>>

\* normalizeUrl(url): origin and pathname of the url, or the url itself when
\* it does not parse.
UrlNormalized ==
    [url \in Urls |->
        IF Parses(UrlText[url])
        THEN CHOOSE u \in Urls : UrlText[u] = OriginAndPath(UrlText[url])
        ELSE url]

normalizeUrl(url) == UrlNormalized[url]

\* getStorageKey(url) without its prefix 'article_progress_'
getStorageKey(url) == hashUrl(normalizeUrl(url))

\* text.startsWith(prefix) and text.endsWith(suffix)
StartsWith(text, prefix) ==
    Len(text) >= Len(prefix) /\ SubSeq(text, 1, Len(prefix)) = prefix

EndsWith(text, suffix) ==
    /\ Len(text) >= Len(suffix)
    /\ SubSeq(text, Len(text) - Len(suffix) + 1, Len(text)) = suffix

\* The code units from the first '/' on, and those before it.
RECURSIVE FromSlash(_)
FromSlash(text) ==
    IF text = <<>> \/ Head(text) = 47 THEN text ELSE FromSlash(Tail(text))

\* excludedPaths: '/media', '/highlights', '/with_replies', '/likes',
\* '/followers', '/following', '/lists'
excludedPaths ==
    {<<47, 109, 101, 100, 105, 97>>,
     <<47, 104, 105, 103, 104, 108, 105, 103, 104, 116, 115>>,
     <<47, 119, 105, 116, 104, 95, 114, 101, 112, 108, 105, 101, 115>>,
     <<47, 108, 105, 107, 101, 115>>,
     <<47, 102, 111, 108, 108, 111, 119, 101, 114, 115>>,
     <<47, 102, 111, 108, 108, 111, 119, 105, 110, 103>>,
     <<47, 108, 105, 115, 116, 115>>}

\* 'https://x.com/' and 'https://twitter.com/'
Origins ==
    {<<104, 116, 116, 112, 115, 58, 47, 47, 120, 46, 99, 111, 109, 47>>,
     <<104, 116, 116, 112, 115, 58, 47, 47, 116, 119, 105, 116, 116, 101,
       114, 46, 99, 111, 109, 47>>}

\* '/articles/' and '/status/'
Kinds ==
    {<<47, 97, 114, 116, 105, 99, 108, 101, 115, 47>>,
     <<47, 115, 116, 97, 116, 117, 115, 47>>}

\* /^https:\/\/(x\.com|twitter\.com)\/[^/]+\/(articles|status)\/.+/ tested
\* on the text: an origin, a segment that is not empty, the kind, and at
\* least one more code unit.
MatchesPattern(text) ==
    \E origin \in Origins :
        /\ StartsWith(text, origin)
        /\ LET rest == SubSeq(text, Len(origin) + 1, Len(text))
               tail == FromSlash(rest)
           IN  /\ Len(tail) < Len(rest)
               /\ \E kind \in Kinds :
                      StartsWith(tail, kind) /\ Len(tail) > Len(kind)

\* isArticlePage() on each url of the runs, computed once: the pathname
\* ends with no excluded path and the url matches the pattern.
UrlIsArticle ==
    [url \in Urls |->
        /\ \A excluded \in excludedPaths :
               ~EndsWith(OriginAndPath(UrlText[url]), excluded)
        /\ MatchesPattern(UrlText[url])]

isArticlePage(url) == UrlIsArticle[url]

----------------------------------------------------------------------------
(* The Discover list and the Library: showNotification in the background,
   removeFromDiscover, moveDiscoverToPending and loadArticles in the popup,
   saveProgress in the content script *)

\* "Keep only last 20 articles": the literal of showNotification.
MaxNewArticles == 20

\* A field that is absent.  In every test the handlers make, undefined and
\* the empty string behave alike.
Undefined == <<>>

\* The entry showNotification stores.  Its id, preview, image and timestamp
\* are read by no test of any handler.
NewArticle(author, article, url) ==
    [url |-> url, title |-> article.title, author |-> author.username]

\* newArticles.unshift(entry); if (newArticles.length > 20) newArticles.pop()
\* without the pop.
UnshiftAndTrim_NoPop(newArticles, entry) == <<entry>> \o newArticles

\* newArticles.unshift(entry); if (newArticles.length > 20) newArticles.pop()
UnshiftAndTrim(newArticles, entry) ==
    LET unshifted == <<entry>> \o newArticles
    IN  IF Len(unshifted) > MaxNewArticles
        THEN SubSeq(unshifted, 1, Len(unshifted) - 1)
        ELSE unshifted

\* articles.filter(a => a.url !== url)
FilterUrl(articles, url) ==
    LET Keep(a) == a.url # url
    IN  SelectSeq(articles, Keep)

\* newArticles.find(a => a.url === url): the index of the first such entry,
\* 0 when there is none.
FindUrl(newArticles, url) ==
    IF \E k \in 1..Len(newArticles) : newArticles[k].url = url
    THEN CHOOSE k \in 1..Len(newArticles) :
             /\ newArticles[k].url = url
             /\ \A j \in 1..(k - 1) : newArticles[j].url # url
    ELSE 0

\* The entry moveDiscoverToPending makes of a Discover article: author is
\* article.authorName, a field showNotification never stores.
PendingEntry(article, lastRead) ==
    [url |-> article.url, scrollPosition |-> 0, scrollPercentage |-> 0,
     lastRead |-> lastRead, title |-> article.title, author |-> Undefined,
     authorHandle |-> article.author]

\* obj[key] = value on an object kept as the sequence of its [key, value]
\* pairs in the order the keys were first set.
SetKey(obj, key, value) ==
    IF \E k \in 1..Len(obj) : obj[k].key = key
    THEN [k \in 1..Len(obj) |->
             IF obj[k].key = key THEN [key |-> key, value |-> value]
             ELSE obj[k]]
    ELSE Append(obj, [key |-> key, value |-> value])

\* s.includes(q) for strings as character sequences.
Includes(s, q) ==
    \E k \in 0..(Len(s) - Len(q)) : SubSeq(s, k + 1, k + Len(q)) = q

\* x?.toLowerCase().includes(query) of an optional field.
FieldIncludes(x, query) ==
    x # Undefined /\ Includes(toLowerCase(x), query)

\* The Map loadArticles builds, as the sequence of its [key, value] pairs:
\* for each progress entry from k on, the entry is set under its normalized
\* url unless the Map holds one that was read at least as late.
RECURSIVE ArticlesMap(_, _, _)
ArticlesMap(entries, k, map) ==
    IF k > Len(entries) THEN map
    ELSE LET article == entries[k].value
             normalizedUrl == normalizeUrl(article.url)
             Existing == {j \in 1..Len(map) : map[j].key = normalizedUrl}
             replace ==
                 \/ Existing = {}
                 \/ \E j \in Existing : article.lastRead > map[j].value.lastRead
         IN  ArticlesMap(entries, k + 1,
                         IF replace THEN SetKey(map, normalizedUrl, article)
                         ELSE map)

\* articles.sort((a, b) => b.lastRead - a.lastRead): a stable sort, latest
\* first.
RECURSIVE SortByLastRead(_)
SortByLastRead(articles) ==
    IF articles = <<>> THEN <<>>
    ELSE LET sorted == SortByLastRead(SubSeq(articles, 1, Len(articles) - 1))
             last == articles[Len(articles)]
             before == {k \in 0..Len(sorted) :
                           \A j \in 1..k : sorted[j].lastRead >= last.lastRead}
             at == CHOOSE k \in before : \A j \in before : j <= k
         IN  SubSeq(sorted, 1, at) \o <<last>>
                 \o SubSeq(sorted, at + 1, Len(sorted))

\* The articles loadArticles renders from the progress entries in storage,
\* under the filter and the search query of the popup.
LoadArticles(entries, filter, query) ==
    LET map == ArticlesMap(entries, 1, <<>>)
        articles == SortByLastRead([k \in 1..Len(map) |-> map[k].value])
        InFilter(a) ==
            IF filter = "pending" THEN a.scrollPercentage < 100
            ELSE IF filter = "finished" THEN a.scrollPercentage >= 100
            ELSE TRUE
        InSearch(a) ==
            \/ trim(query) = <<>>
            \/ FieldIncludes(a.title, toLowerCase(query))
            \/ FieldIncludes(a.author, toLowerCase(query))
            \/ FieldIncludes(a.authorHandle, toLowerCase(query))
    IN  SelectSeq(SelectSeq(articles, InFilter), InSearch)

\* The card loadArticles renders for an article.
Card(article) ==
    [url |-> article.url, scrollPercentage |-> article.scrollPercentage]

\* The k below 100 for which (scrollTop / docHeight) * 100, which is exactly
\* k + 1/2 in the rationals, is below k + 1/2 in double precision: the
\* quotient (2k + 1) / 200 is rounded down and the product does not make up
\* for it, so Math.round gives k and not k + 1.
HalvesRoundedDown == {14, 28, 56, 57}

\* Math.min(100, Math.round((scrollTop / docHeight) * 100)) in double
\* precision, or 0 when the document does not scroll.  The quotient and the
\* product are within 2^-52 of their exact values, so the rounding differs
\* from the exact one only where the exact value is k + 1/2.
ScrollPct(scrollTop, docHeight) ==
    IF docHeight > 0
    THEN LET exact == (200 * scrollTop + docHeight) \div (2 * docHeight)
             half == 200 * scrollTop = (2 * exact - 1) * docHeight
             rounded == IF half /\ (exact - 1) \in HalvesRoundedDown
                        THEN exact - 1
                        ELSE exact
         IN  IF rounded > 100 THEN 100 ELSE rounded
    ELSE 0

\* The pages the content script runs on: the url, and the title and the
\* author the page shows.
Pages ==
    {[href |-> "https://x.com/a/status/1?s=20", title |-> <<"A", "b">>,
      author |-> <<"A">>, authorHandle |-> <<"a">>],
     [href |-> "https://x.com/b/status/2", title |-> <<"c", "d">>,
      author |-> Undefined, authorHandle |-> <<"b">>]}

\* The scroll positions saveProgress is called at: scrollTop and the
\* scrollable height.
Scrolls ==
    {[scrollTop |-> 40, docHeight |-> 1000],
     [scrollTop |-> 58, docHeight |-> 400],
     [scrollTop |-> 1200, docHeight |-> 1000]}

\* The arguments showNotification is called with: the author, the
\* article details and the url.
Notified ==
    {[author |-> Author(<<"a">>), article |-> [title |-> <<"A", "b">>],
      url |-> "https://x.com/a/status/1"],
     [author |-> Author(<<"b">>), article |-> [title |-> <<"c", "d">>],
      url |-> "https://x.com/b/status/2"]}

\* The urls of the Discover cards that are clicked: those of the entries
\* showNotification stores.
CardUrls == {n.url : n \in Notified}

\* What is typed into the search input.
Queries == {<<>>, <<"C">>}

MaxNow == 1

\* The url of a page that is no article: the home timeline.
HomeHref == "https://x.com/home"

\* The pages of the tab: the articles, and the home timeline.  The title of
\* the home timeline comes from document.title, and no author is found on
\* it.
TabPages ==
    Pages \cup {[href |-> HomeHref, title |-> <<"H">>, author |-> Undefined,
                 authorHandle |-> Undefined]}

Locations == {p.href : p \in TabPages}

\* The url the tab is loaded on: that of the first article, with a query.
StartHref == "https://x.com/a/status/1?s=20"

\* await new Promise((resolve) => setTimeout(resolve, 2000)) of
\* initTracking, and setTimeout(initTracking, 1000) of the observer, in
\* ticks of 250 ms.
ContentWait == 8
InitDelay == 4

\* The content script has been loaded on href: lastUrl is set and
\* initTracking() has been called.  On an article page it has set currentUrl
\* and isInitialized and waits for the content; elsewhere it has returned.
LoadedOn(href) ==
    /\ cachedMetadata = Null
    /\ location = href
    /\ lastUrl = href
    /\ scrollHandler = FALSE
    /\ initTimers = <<>>
    /\ IF isArticlePage(href)
       THEN /\ currentUrl = href
            /\ isInitialized = TRUE
            /\ initRuns = <<[pc |-> "wait", due |-> ContentWait]>>
       ELSE /\ currentUrl = ""
            /\ isInitialized = FALSE
            /\ initRuns = <<>>

\* The extension with authors as its followed authors and nothing else in
\* storage, the popup open, no handler running, and a tab loaded on one of
\* hrefs.
InitExtension(authors, hrefs) ==
    /\ call = NoCall
    /\ deflate = Idle
    /\ icons = Idle
    /\ files = <<>>
    /\ ret = NoCall
    /\ png = <<>>
    /\ storage = [followed_authors |-> authors, seen_articles |-> <<>>,
                  new_articles |-> <<>>, articles |-> <<>>,
                  article_progress_ |-> <<>>, settings |-> Undefined]
    /\ tasks = [i \in 1..MaxTasks |-> Free]
    /\ removedSince = {}
    /\ authorsList = AuthorButtons(authors)
    /\ \E href \in hrefs : LoadedOn(href)
    /\ now = 0
    /\ currentFilter = "pending"
    /\ searchQuery = <<>>
    /\ container = <<>>
    /\ timeoutId = 0
    /\ timers = {}
    /\ wrapperCalls = <<>>
    /\ fnRuns = <<>>

\* The tab is loaded on the page of the first article.
InitFollowing(authors) == InitExtension(authors, {StartHref})

InitDiscover == InitFollowing(<<>>)

\* Time passes, up to the end of the run.
TickTo(end) ==
    /\ now < end
    /\ now' = now + 1
    /\ UNCHANGED <<encoderVars, popupVars, timerVars, currentFilter,
                   searchQuery, container, cachedMetadata, trackVars>>

Tick == TickTo(MaxNow)

\* showNotification(author, article, url) is called:
\* chrome.notifications.create is called and awaited.  The function has one
\* caller, checkNewArticles past its test of API_KEY; the runs of the
\* Discover list call it directly.
ShowNotificationCall(i, n) ==
    /\ FreeSlot(i)
    /\ tasks' = [tasks EXCEPT ![i] =
                     [fn |-> "showNotification", pc |-> "create",
                      entry |-> NewArticle(n.author, n.article, n.url),
                      newArticles |-> <<>>]]
    /\ UNCHANGED <<encoderVars, pageVars, timerVars, storage, removedSince, authorsList>>

\* chrome.notifications.create resolves, or rejects and the error is
\* caught: storage.get is called and awaited.
ShowNotificationCreated(i) ==
    /\ tasks[i].fn = "showNotification"
    /\ tasks[i].pc = "create"
    /\ tasks' = [tasks EXCEPT ![i].pc = "get"]
    /\ UNCHANGED <<encoderVars, pageVars, timerVars, storage, removedSince, authorsList>>

\* storage.get resolves: the entry is put first on the list that was read
\* and the list is cut to its bound.
ShowNotificationRead(i) ==
    /\ tasks[i].fn = "showNotification"
    /\ tasks[i].pc = "get"
    /\ tasks' = [tasks EXCEPT
                     ![i].pc = "set",
                     ![i].newArticles =
                         UnshiftAndTrim(Get("new_articles"), tasks[i].entry)]
    /\ UNCHANGED <<encoderVars, pageVars, timerVars, storage, removedSince, authorsList>>

\* The list is written.
ShowNotificationWrite(i) ==
    /\ tasks[i].fn = "showNotification"
    /\ tasks[i].pc = "set"
    /\ storage' = [storage EXCEPT !.new_articles = tasks[i].newArticles]
    /\ tasks' = Finish(i)
    /\ UNCHANGED <<encoderVars, pageVars, timerVars, removedSince, authorsList>>

\* The close button of a Discover card is clicked: removeFromDiscover(url).
RemoveFromDiscoverCall(i, url) ==
    /\ FreeSlot(i)
    /\ tasks' = [tasks EXCEPT ![i] =
                     [fn |-> "removeFromDiscover", pc |-> "get",
                      url |-> url, filtered |-> <<>>]]
    /\ UNCHANGED <<encoderVars, pageVars, timerVars, storage, removedSince, authorsList>>

\* storage.get resolves: the list is read and filtered.
RemoveFromDiscoverRead(i) ==
    /\ tasks[i].fn = "removeFromDiscover"
    /\ tasks[i].pc = "get"
    /\ tasks' = [tasks EXCEPT
                     ![i].pc = "set",
                     ![i].filtered =
                         FilterUrl(Get("new_articles"), tasks[i].url)]
    /\ UNCHANGED <<encoderVars, pageVars, timerVars, storage, removedSince, authorsList>>

\* The filtered list is written.
RemoveFromDiscoverWrite(i) ==
    /\ tasks[i].fn = "removeFromDiscover"
    /\ tasks[i].pc = "set"
    /\ storage' = [storage EXCEPT !.new_articles = tasks[i].filtered]
    /\ tasks' = Finish(i)
    /\ UNCHANGED <<encoderVars, pageVars, timerVars, removedSince, authorsList>>

\* A Discover card is clicked: moveDiscoverToPending(url).
MoveDiscoverToPendingCall(i, url) ==
    /\ FreeSlot(i)
    /\ tasks' = [tasks EXCEPT ![i] =
                     [fn |-> "moveDiscoverToPending", pc |-> "get",
                      url |-> url, found |-> FALSE, articles |-> <<>>,
                      filtered |-> <<>>]]
    /\ UNCHANGED <<encoderVars, pageVars, timerVars, storage, removedSince, authorsList>>

\* storage.get resolves: the article is looked up in the list that was
\* read.  When it is found its entry is put into the articles object under
\* hashUrl(url) and the list is filtered; when it is not, the call returns.
MoveDiscoverToPendingRead(i) ==
    /\ tasks[i].fn = "moveDiscoverToPending"
    /\ tasks[i].pc = "get"
    /\ LET newArticles == Get("new_articles")
           articles == Get("articles")
           url == tasks[i].url
           at == FindUrl(newArticles, url)
       IN  IF at # 0
           THEN tasks' = [tasks EXCEPT
                    ![i].pc = "set",
                    ![i].found = TRUE,
                    ![i].articles =
                        SetKey(articles, hashUrl(url),
                               PendingEntry(newArticles[at], now)),
                    ![i].filtered = FilterUrl(newArticles, url)]
           ELSE tasks' = [tasks EXCEPT ![i].pc = "returned"]
    /\ UNCHANGED <<encoderVars, pageVars, timerVars, storage, removedSince, authorsList>>

\* The articles object and the filtered list are written, and the call
\* returns.
MoveDiscoverToPendingWrite(i) ==
    /\ tasks[i].fn = "moveDiscoverToPending"
    /\ tasks[i].pc = "set"
    /\ storage' = [storage EXCEPT !.articles = tasks[i].articles,
                                  !.new_articles = tasks[i].filtered]
    /\ tasks' = [tasks EXCEPT ![i].pc = "returned"]
    /\ UNCHANGED <<encoderVars, pageVars, timerVars, removedSince, authorsList>>

\* The click handler goes on after the call: the tab is opened and the
\* Discover list is loaded again.
MoveDiscoverToPendingOpenTab(i) ==
    /\ tasks[i].fn = "moveDiscoverToPending"
    /\ tasks[i].pc = "returned"
    /\ tasks' = Finish(i)
    /\ UNCHANGED <<encoderVars, pageVars, timerVars, storage, removedSince, authorsList>>

\* extractArticleMetadata() on the document of a page: its title, the
\* display name of the author and the handle.  The image, which no handler
\* of the model reads, is left out of the metadata and of the entries.
extractArticleMetadata(page) ==
    [title |-> page.title, author |-> page.author,
     authorHandle |-> page.authorHandle]

\* The bound on the timers of the observer that are set at one time.
MaxInitTimers == 2

\* The tab goes to another url without loading the page again.
Navigate(href) ==
    /\ location # ""
    /\ href # location
    /\ location' = href
    /\ UNCHANGED <<encoderVars, popupVars, timerVars, now, currentFilter,
                   searchQuery, container, cachedMetadata, lastUrl,
                   currentUrl, isInitialized, scrollHandler, initTimers,
                   initRuns>>

\* The callback of the MutationObserver runs and finds the url changed:
\* lastUrl is set, currentUrl and isInitialized are reset and
\* setTimeout(initTracking, 1000) is called.
ObserverCallback ==
    /\ location # lastUrl
    /\ Len(initTimers) < MaxInitTimers
    /\ lastUrl' = location
    /\ currentUrl' = ""
    /\ isInitialized' = FALSE
    /\ initTimers' = Append(initTimers, now + InitDelay)
    /\ UNCHANGED <<encoderVars, popupVars, timerVars, now, currentFilter,
                   searchQuery, container, cachedMetadata, location,
                   scrollHandler, initRuns>>

\* The oldest timer of the observer is due and runs initTracking(): it
\* returns when the tab is on no article page, or on the url it is
\* initialized for; otherwise currentUrl and isInitialized are set,
\* cachedMetadata is reset and the call waits 2000 ms for the content.
InitTracking ==
    /\ initTimers # <<>>
    /\ Head(initTimers) <= now
    /\ initTimers' = Tail(initTimers)
    /\ IF ~isArticlePage(location)
       THEN UNCHANGED <<currentUrl, isInitialized, cachedMetadata, initRuns>>
       ELSE IF currentUrl = location /\ isInitialized
       THEN UNCHANGED <<currentUrl, isInitialized, cachedMetadata, initRuns>>
       ELSE /\ currentUrl' = location
            /\ isInitialized' = TRUE
            /\ cachedMetadata' = Null
            /\ initRuns' = Append(initRuns, [pc |-> "wait",
                                             due |-> now + ContentWait])
    /\ UNCHANGED <<encoderVars, popupVars, timerVars, now, currentFilter,
                   searchQuery, container, location, lastUrl, scrollHandler>>

\* The 2000 ms of an initTracking call are over: loadProgress() is called
\* and awaits storage.get.
InitTrackingWaited(k) ==
    /\ k \in 1..Len(initRuns)
    /\ initRuns[k].pc = "wait"
    /\ initRuns[k].due <= now
    /\ initRuns' = [initRuns EXCEPT ![k].pc = "load"]
    /\ UNCHANGED <<encoderVars, popupVars, timerVars, now, currentFilter,
                   searchQuery, container, cachedMetadata, location, lastUrl,
                   currentUrl, isInitialized, scrollHandler, initTimers>>

\* storage.get of loadProgress resolves or fails: the button is shown for a
\* saved position, the scroll handler that was set is removed, the new one
\* is set and listens, and the interval is set; initTracking returns.
InitTrackingLoaded(k) ==
    /\ k \in 1..Len(initRuns)
    /\ initRuns[k].pc = "load"
    /\ scrollHandler' = TRUE
    /\ initRuns' = SubSeq(initRuns, 1, k - 1)
                       \o SubSeq(initRuns, k + 1, Len(initRuns))
    /\ UNCHANGED <<encoderVars, popupVars, timerVars, now, currentFilter,
                   searchQuery, container, cachedMetadata, location, lastUrl,
                   currentUrl, isInitialized, initTimers>>

\* saveProgress() in the content script, the tab showing page.  It is
\* called when the tab is hidden or unloaded or the interval runs, each on
\* an article page, and by the scroll handler once that is set, on any
\* page.  Nothing is saved near the top; otherwise the metadata is
\* extracted unless it is cached, and cached; the progress entry is built
\* from it, with lastRead the time of the call, and storage.set is called
\* with it under the key of the page's url and awaited.
SaveProgress(i, page, scroll) ==
    /\ FreeSlot(i)
    /\ page.href = location
    /\ isArticlePage(location) \/ scrollHandler
    /\ LET scrollPct == ScrollPct(scroll.scrollTop, scroll.docHeight)
           metadata == IF cachedMetadata = Null
                       THEN extractArticleMetadata(page)
                       ELSE cachedMetadata
           progress ==
               [url |-> normalizeUrl(page.href),
                scrollPosition |-> scroll.scrollTop,
                scrollPercentage |-> scrollPct, lastRead |-> now,
                title |-> metadata.title, author |-> metadata.author,
                authorHandle |-> metadata.authorHandle]
           key == getStorageKey(progress.url)
       IN  IF scroll.scrollTop < 50
           THEN UNCHANGED <<tasks, cachedMetadata>>
           ELSE /\ cachedMetadata' = metadata
                /\ tasks' = [tasks EXCEPT ![i] =
                                 [fn |-> "saveProgress", pc |-> "set",
                                  key |-> key, progress |-> progress]]
    /\ UNCHANGED <<encoderVars, timerVars, storage, removedSince,
                   authorsList, now, currentFilter, searchQuery, container,
                   trackVars>>

\* saveProgress() of the older content script (unnamed/part_000): the entry
\* is built at any scroll position, with the url as the page has it and
\* without title and author, which read as undefined, and storage.set is
\* called with it under the key of that url and awaited.
SaveProgressOld(i, page, scroll) ==
    /\ FreeSlot(i)
    /\ LET progress ==
               [url |-> page.href,
                scrollPosition |-> scroll.scrollTop,
                scrollPercentage |->
                    ScrollPct(scroll.scrollTop, scroll.docHeight),
                lastRead |-> now,
                title |-> Undefined, author |-> Undefined,
                authorHandle |-> Undefined]
           key == hashUrl(progress.url)
       IN  tasks' = [tasks EXCEPT ![i] =
                         [fn |-> "saveProgress", pc |-> "set",
                          key |-> key, progress |-> progress]]
    /\ UNCHANGED <<encoderVars, pageVars, timerVars, storage, removedSince, authorsList>>

\* storage.set of a saveProgress call is served: the entry built at the call
\* is stored under its key.
SaveProgressWrite(i) ==
    /\ tasks[i].fn = "saveProgress"
    /\ tasks[i].pc = "set"
    /\ storage' = [storage EXCEPT !.article_progress_ =
                       SetKey(storage.article_progress_, tasks[i].key,
                              tasks[i].progress)]
    /\ tasks' = Finish(i)
    /\ UNCHANGED <<encoderVars, pageVars, timerVars, removedSince, authorsList>>

\* storage.remove(keys) on the article_progress_ entries: the entries under
\* the keys are removed.
RemoveKeys(obj, keys) ==
    LET Kept(e) == e.key \notin keys
    IN  SelectSeq(obj, Kept)

\* loadArticles() is called: it awaits storage.get(null).
LoadArticlesCalled == [fn |-> "loadArticles", pc |-> "get"]

\* The remove button of a Library card is clicked: removeArticle(url) calls
\* storage.remove with the key of the url and awaits it.
RemoveArticleClick(i, k) ==
    /\ FreeSlot(i)
    /\ k \in 1..Len(container)
    /\ tasks' = [tasks EXCEPT ![i] =
                     [fn |-> "removeArticle", pc |-> "remove",
                      key |-> hashUrl(normalizeUrl(container[k].url))]]
    /\ UNCHANGED <<encoderVars, pageVars, timerVars, storage, removedSince, authorsList>>

\* storage.remove of removeArticle is served: the key is removed, and the
\* click handler goes on with loadArticles().
RemoveArticleRemoved(i) ==
    /\ tasks[i].fn = "removeArticle"
    /\ tasks[i].pc = "remove"
    /\ storage' = [storage EXCEPT !.article_progress_ =
                       RemoveKeys(storage.article_progress_, {tasks[i].key})]
    /\ tasks' = [tasks EXCEPT ![i] = LoadArticlesCalled]
    /\ UNCHANGED <<encoderVars, pageVars, timerVars, removedSince, authorsList>>

\* The clear-all button is clicked and the question is confirmed:
\* storage.get(null) is called and awaited.
ClearAllClick(i) ==
    /\ FreeSlot(i)
    /\ tasks' = [tasks EXCEPT ![i] =
                     [fn |-> "clearAll", pc |-> "get", keysToRemove |-> {}]]
    /\ UNCHANGED <<encoderVars, pageVars, timerVars, storage, removedSince, authorsList>>

\* storage.get(null) resolves: the keys that start with 'article_progress_'
\* are collected and storage.remove is called with them.
ClearAllRead(i) ==
    /\ tasks[i].fn = "clearAll"
    /\ tasks[i].pc = "get"
    /\ LET result == Get("article_progress_")
       IN  tasks' = [tasks EXCEPT
                         ![i].pc = "remove",
                         ![i].keysToRemove =
                             {result[k].key : k \in 1..Len(result)}]
    /\ UNCHANGED <<encoderVars, pageVars, timerVars, storage, removedSince, authorsList>>

\* storage.remove of the clear-all handler is served: the collected keys
\* are removed, and the handler goes on with loadArticles().
ClearAllRemoved(i) ==
    /\ tasks[i].fn = "clearAll"
    /\ tasks[i].pc = "remove"
    /\ storage' = [storage EXCEPT !.article_progress_ =
                       RemoveKeys(storage.article_progress_,
                                  tasks[i].keysToRemove)]
    /\ tasks' = [tasks EXCEPT ![i] = LoadArticlesCalled]
    /\ UNCHANGED <<encoderVars, pageVars, timerVars, removedSince, authorsList>>

\* A filter tab is clicked: currentFilter is set and loadArticles() is
\* called, which awaits storage.get(null).
FilterTabClick(i, filter) ==
    /\ FreeSlot(i)
    /\ currentFilter' = filter
    /\ tasks' = [tasks EXCEPT ![i] = LoadArticlesCalled]
    /\ UNCHANGED <<encoderVars, timerVars, storage, removedSince, authorsList, now,
                   cachedMetadata, trackVars,
                   searchQuery, container>>

\* The timer of the search input runs: searchQuery is set to what was
\* typed and loadArticles() is called.
SearchInput(i, value) ==
    /\ FreeSlot(i)
    /\ searchQuery' = value
    /\ tasks' = [tasks EXCEPT ![i] = LoadArticlesCalled]
    /\ UNCHANGED <<encoderVars, timerVars, storage, removedSince, authorsList, now,
                   cachedMetadata, trackVars,
                   currentFilter, container>>

\* storage.get(null) resolves: the progress entries are collected, sorted,
\* filtered and rendered.
LoadArticlesRender(i) ==
    /\ tasks[i].fn = "loadArticles"
    /\ tasks[i].pc = "get"
    /\ LET articles == LoadArticles(Get("article_progress_"), currentFilter,
                                    searchQuery)
       IN  container' = [k \in 1..Len(articles) |-> Card(articles[k])]
    /\ tasks' = Finish(i)
    /\ UNCHANGED <<encoderVars, timerVars, storage, removedSince, authorsList, now,
                   cachedMetadata, trackVars,
                   currentFilter, searchQuery>>

\* The bound on the Discover list of the Library runs: on its entries
\* together with the showNotification calls that are about to add one.
MaxShown == 1

\* The showNotification calls that have not returned.
Showing == {j \in DOMAIN tasks : tasks[j].fn = "showNotification"}

\* showNotification is called while the Discover list is short.
ShowNotificationCallWhileShort(i, n) ==
    /\ Len(storage.new_articles) + Cardinality(Showing) < MaxShown
    /\ ShowNotificationCall(i, n)

\* The article showNotification is called with in the Library
\* runs.
NotifiedInLibrary == {n \in Notified : n.author.username = <<"a">>}

\* The page that is read in the Library runs: that of the article that is
\* notified.
LibraryPages ==
    {p \in Pages : \E n \in NotifiedInLibrary : normalizeUrl(p.href) = n.url}

\* The cards the Library shows at most: one for each url.
MaxCards == Cardinality(Urls)

NextLibrary ==
    \/ Tick
    \/ \E i \in 1..MaxTasks :
           \/ \E page \in LibraryPages, scroll \in Scrolls :
                  SaveProgress(i, page, scroll)
           \/ SaveProgressWrite(i)
           \/ \E k \in 1..MaxCards : RemoveArticleClick(i, k)
           \/ RemoveArticleRemoved(i)
           \/ ClearAllClick(i)
           \/ ClearAllRead(i)
           \/ ClearAllRemoved(i)
           \/ \E n \in NotifiedInLibrary :
                  ShowNotificationCallWhileShort(i, n)
           \/ ShowNotificationCreated(i)
           \/ ShowNotificationRead(i)
           \/ ShowNotificationWrite(i)
           \/ \E url \in CardUrls : MoveDiscoverToPendingCall(i, url)
           \/ MoveDiscoverToPendingRead(i)
           \/ MoveDiscoverToPendingWrite(i)
           \/ MoveDiscoverToPendingOpenTab(i)
           \/ \E filter \in {"pending", "finished"} : FilterTabClick(i, filter)
           \/ \E value \in Queries : SearchInput(i, value)
           \/ LoadArticlesRender(i)

SpecLibrary == InitDiscover /\ [][NextLibrary]_vars

\* The page and the scroll position the older content script saves at: a
\* url with a query, near the top.
OldPages == {p \in Pages : normalizeUrl(p.href) # p.href}
OldScrolls == {s \in Scrolls : s.scrollTop < 50}

\* The Library with both content scripts saving: the content script of
\* src/content.ts in a tab that stays on the page it was loaded on, and the
\* older one, and the popup's handlers that read and remove what they
\* save.  The clock stands in these runs.
NextReading ==
    \E i \in 1..MaxTasks :
        \/ \E page \in Pages, scroll \in Scrolls :
               SaveProgress(i, page, scroll)
        \/ \E page \in OldPages, scroll \in OldScrolls :
               SaveProgressOld(i, page, scroll)
        \/ SaveProgressWrite(i)
        \/ \E k \in 1..MaxCards : RemoveArticleClick(i, k)
        \/ RemoveArticleRemoved(i)
        \/ ClearAllClick(i)
        \/ ClearAllRead(i)
        \/ ClearAllRemoved(i)
        \/ \E filter \in {"pending", "finished"} : FilterTabClick(i, filter)
        \/ \E value \in Queries : SearchInput(i, value)
        \/ LoadArticlesRender(i)

\* The tab is loaded on one of the articles.
InitReading == InitExtension(<<>>, {p.href : p \in Pages})

SpecReading == InitReading /\ [][NextReading]_vars

\* The clock of the tracking runs goes on until the first initTracking call
\* has set the scroll handler.
MaxTrackTime == 9

TrackingTick == TickTo(MaxTrackTime)

\* The scroll positions of the tracking runs: one near the top and one
\* below it.
TrackScrolls == {s \in Scrolls : s.scrollTop < 100}

\* The bound on the entries of the tracking runs: on those stored together
\* with the saveProgress calls that are about to store one.
MaxSaved == 1

\* The saveProgress calls that have not returned.
Saving == {j \in DOMAIN tasks : tasks[j].fn = "saveProgress"}

\* saveProgress is called while few entries are stored.
SaveProgressWhileFew(i, page, scroll) ==
    /\ Len(storage.article_progress_) + Cardinality(Saving) < MaxSaved
    /\ SaveProgress(i, page, scroll)

\* The tab is loaded on any of its pages.
InitTracked == InitExtension(<<>>, Locations)

\* The content script of a tab that goes from page to page: the observer
\* and its timers, initTracking and saveProgress.
NextTracking ==
    \/ TrackingTick
    \/ \E href \in Locations : Navigate(href)
    \/ ObserverCallback
    \/ InitTracking
    \/ \E k \in 1..(MaxInitTimers + 1) : InitTrackingWaited(k)
    \/ \E k \in 1..(MaxInitTimers + 1) : InitTrackingLoaded(k)
    \/ \E i \in 1..MaxTasks :
           \/ \E page \in TabPages, scroll \in TrackScrolls :
                  SaveProgressWhileFew(i, page, scroll)
           \/ SaveProgressWrite(i)

SpecTracking == InitTracked /\ [][NextTracking]_vars

----------------------------------------------------------------------------
(* Claims about the Discover list and the Library *)

\* A moveDiscoverToPending call has found its url in the list it read and
\* has returned; the click handler has not yet gone on.
Moved(i) ==
    /\ tasks[i].fn = "moveDiscoverToPending"
    /\ tasks[i].pc = "returned"
    /\ tasks[i].found

\* The url is in the stored Discover list.
InDiscover(url) ==
    \E k \in 1..Len(storage.new_articles) : storage.new_articles[k].url = url

\* loadArticles with the filter 'pending' and no search query lists an
\* article with the url at 0% progress.
ListedPendingAtZero(url) ==
    LET articles == LoadArticles(storage.article_progress_, "pending", <<>>)
    IN  \E k \in 1..Len(articles) :
            /\ normalizeUrl(articles[k].url) = normalizeUrl(url)
            /\ articles[k].scrollPercentage = 0

\* After moveDiscoverToPending(url) for a url in new_articles, the url is
\* no longer in new_articles.
MovedOutOfDiscover ==
    \A i \in DOMAIN tasks : Moved(i) => ~InDiscover(tasks[i].url)

\* C21: after moveDiscoverToPending(url) for a url present in new_articles,
\* the article is removed from new_articles and appears in the Library:
\* loadArticles with the filter 'pending' lists an article with that url at
\* 0% progress.
C21_MovedToLibrary ==
    \A i \in DOMAIN tasks :
        Moved(i) => /\ ~InDiscover(tasks[i].url)
                    /\ ListedPendingAtZero(tasks[i].url)

----------------------------------------------------------------------------
(* debounce(fn, delay) in the content script, and the timers of the page *)

\* debounce(saveProgress, 500): the delay, in ticks of 250 ms.
Delay == 2

\* The bounds of the runs: the calls of the wrapper, and the clock.
MaxCalls == 4
MaxTime == 7

\* The argument lists the wrapper is called with.
ArgLists == {<<>>, <<"e">>}

\* clearTimeout(id) that clears nothing.
ClearTimeout_Nothing(set, id) == set

\* clearTimeout(id): the timer with that id, if it is still set, is
\* cleared.
ClearTimeout(set, id) == {t \in set : t.id # id}

\* The id setTimeout returns: a positive integer no timer was given before.
NextTimerId == Len(wrapperCalls) + 1

\* The wrapper is called:
\* if (timeoutId) clearTimeout(timeoutId);
\* timeoutId = setTimeout(() => fn(...args), delay).
\* Calls are made while the clock of the run has room for the delay.
WrapperCall(args) ==
    /\ Len(wrapperCalls) < MaxCalls
    /\ now + Delay <= MaxTime
    /\ LET cleared == IF timeoutId # 0 THEN ClearTimeout(timers, timeoutId)
                      ELSE timers
       IN  timers' = cleared \cup {[id |-> NextTimerId, due |-> now + Delay,
                                     args |-> args]}
    /\ timeoutId' = NextTimerId
    /\ wrapperCalls' = Append(wrapperCalls, [at |-> now, args |-> args])
    /\ UNCHANGED <<encoderVars, popupVars, pageVars, fnRuns>>

\* A timer whose delay has elapsed runs its callback, fn(...args); the
\* closure's timeoutId keeps the id.  calls is the number of wrapper calls
\* made before the run.
TimerFire ==
    /\ \E t \in timers :
           /\ t.due <= now
           /\ timers' = timers \ {t}
           /\ fnRuns' = Append(fnRuns, [at |-> now, args |-> t.args,
                                        calls |-> Len(wrapperCalls)])
    /\ UNCHANGED <<encoderVars, popupVars, pageVars, timeoutId, wrapperCalls>>

TimerTick == TickTo(MaxTime)

InitDebounce == InitDiscover

NextDebounce ==
    \/ \E args \in ArgLists : WrapperCall(args)
    \/ TimerFire
    \/ TimerTick

\* A timer that is due runs, and time goes on.
SpecDebounce ==
    /\ InitDebounce
    /\ [][NextDebounce]_vars
    /\ WF_vars(TimerFire)
    /\ WF_vars(TimerTick)

----------------------------------------------------------------------------
(* Claims about debounce *)

\* The run was made when the delay had elapsed since the most recent call
\* of the wrapper before it, with the arguments of that call.
RunOfLastCall(r) ==
    /\ r.calls \in 1..Len(wrapperCalls)
    /\ r.at >= wrapperCalls[r.calls].at + Delay
    /\ r.args = wrapperCalls[r.calls].args

\* Calls j and j + 1 of the wrapper are less than the delay apart.
Burst(j) == wrapperCalls[j + 1].at - wrapperCalls[j].at < Delay

\* No run is made between two calls of a burst, no call leads to two runs,
\* and every run is that of the most recent call.
RunsAreDebounced ==
    /\ \A k \in 1..Len(fnRuns) : RunOfLastCall(fnRuns[k])
    /\ \A k, l \in 1..Len(fnRuns) : fnRuns[k].calls = fnRuns[l].calls => k = l
    /\ \A j \in 1..(Len(wrapperCalls) - 1) :
           Burst(j) => \A k \in 1..Len(fnRuns) : fnRuns[k].calls # j

\* The most recent call of the wrapper has had its run.
LastCallHasRun ==
    /\ timers = {}
    /\ wrapperCalls # <<>> =>
           /\ fnRuns # <<>>
           /\ fnRuns[Len(fnRuns)].calls = Len(wrapperCalls)

\* C22: a function wrapped by debounce(fn, delay) runs only when delay has
\* elapsed since the most recent call of the wrapper with no call in
\* between; a burst of calls each less than delay apart leads to exactly one
\* run of fn, with the arguments of the last call; and at most one timer is
\* pending at any time.
C22_Debounce ==
    /\ [](RunsAreDebounced /\ Cardinality(timers) <= 1)
    /\ (timers # {}) ~> LastCallHasRun

\* C22 is exercised: three calls less than the delay apart, the last with
\* other arguments than the first two, have led to one run, that of the
\* last call.
C22_Witness ==
    /\ Len(wrapperCalls) = 3
    /\ Burst(1) /\ Burst(2)
    /\ wrapperCalls[1].at < wrapperCalls[3].at
    /\ wrapperCalls[1].args # wrapperCalls[3].args
    /\ Len(fnRuns) = 1
    /\ fnRuns[1].calls = 3
    /\ fnRuns[1].args = wrapperCalls[3].args
    /\ timers = {}

----------------------------------------------------------------------------
(* The Discover list under overlapping handlers *)

\* The articles of the Discover runs: the article of author a, notified any
\* number of times, and the article of author b, notified into an empty
\* list.
Filler == CHOOSE n \in Notified : n.author.username = <<"a">>
Marked == CHOOSE n \in Notified : n.author.username = <<"b">>

\* Author b has been added.
InitOverlap == InitFollowing(<<Author(<<"b">>)>>)

\* showNotification is called for the article of author b while the
\* Discover list is empty and no handler runs.
ShowNotificationCallFirst(i) ==
    /\ storage.new_articles = <<>>
    /\ \A j \in DOMAIN tasks : tasks[j] = Free
    /\ ShowNotificationCall(i, Marked)

NextOverlap ==
    \E i \in 1..MaxTasks :
        \/ ShowNotificationCall(i, Filler)
        \/ ShowNotificationCallFirst(i)
        \/ ShowNotificationCreated(i)
        \/ ShowNotificationRead(i)
        \/ ShowNotificationWrite(i)
        \/ \E url \in CardUrls : RemoveFromDiscoverCall(i, url)
        \/ RemoveFromDiscoverRead(i)
        \/ RemoveFromDiscoverWrite(i)
        \/ MoveDiscoverToPendingCall(i, Marked.url)
        \/ MoveDiscoverToPendingRead(i)
        \/ MoveDiscoverToPendingWrite(i)
        \/ MoveDiscoverToPendingOpenTab(i)
        \/ \E username \in StoredUsernames : RemoveAuthorCall(i, username)
        \/ RemoveAuthorRead(i)
        \/ RemoveAuthorWrite(i)
        \/ LoadAuthorsRender(i)

SpecOverlap == InitOverlap /\ [][NextOverlap]_vars

----------------------------------------------------------------------------
(* Claims about the bound of the Discover list *)

\* In this step the showNotification call in slot i reads the list and
\* prepares the one it will write; the other slots stay as they are.
NotificationReads(i) ==
    /\ tasks[i].fn = "showNotification"
    /\ tasks[i].pc = "get"
    /\ tasks'[i].fn = "showNotification"
    /\ tasks'[i].pc = "set"
    /\ \A j \in DOMAIN tasks : j # i => tasks'[j] = tasks[j]

\* In this step the showNotification call in slot i writes its list and
\* returns.
NotificationWrites(i) ==
    /\ tasks[i].fn = "showNotification"
    /\ tasks[i].pc = "set"
    /\ tasks' = Finish(i)

\* The list is the entry followed by the stored list, without the last
\* entry of the stored list when that one holds 20 already.
NewFirstOldestDropped(list, entry) ==
    LET stored == storage.new_articles
        kept == IF Len(stored) >= 20 THEN 19 ELSE Len(stored)
    IN  /\ Len(list) = kept + 1
        /\ list[1] = entry
        /\ \A k \in 1..kept : list[k + 1] = stored[k]

\* C23: starting from an empty list, new_articles in storage never holds
\* more than 20 entries after any sequence of showNotification,
\* removeFromDiscover, moveDiscoverToPending and removeAuthor calls,
\* including overlapping showNotification calls; each showNotification puts
\* the new article first and drops the oldest entry when the list would
\* exceed 20.
C23_AtMostTwenty ==
    /\ [](Len(storage.new_articles) <= 20)
    /\ [][\A i \in 1..MaxTasks :
              /\ NotificationReads(i) =>
                     NewFirstOldestDropped(tasks'[i].newArticles,
                                           tasks[i].entry)
              /\ NotificationWrites(i) =>
                     /\ storage'.new_articles[1] = tasks[i].entry
                     /\ Len(storage'.new_articles) <= 20]_vars

\* C23 is exercised: the stored list holds 20 entries, the oldest the
\* article of author b; one showNotification call has read it and is about
\* to write 20 entries without that oldest one, while another
\* showNotification call is running.
C23_Witness ==
    /\ Len(storage.new_articles) = 20
    /\ storage.new_articles[20].author = <<"b">>
    /\ \E i, j \in DOMAIN tasks :
           /\ i # j
           /\ tasks[i].fn = "showNotification"
           /\ tasks[i].pc = "set"
           /\ Len(tasks[i].newArticles) = 20
           /\ \A k \in 1..20 : tasks[i].newArticles[k].author = <<"a">>
           /\ tasks[j].fn = "showNotification"

----------------------------------------------------------------------------
(* checkNewArticles from its test of API_KEY on, with addAuthor,
   removeAuthor and saveSettings.  With API_KEY as it is the test returns,
   and the steps after it are not taken. *)

\* What the API answers for a user: the last tweets.  Author a has one
\* tweet with an article, author b one without.  The tweets of the runs
\* carry their url, have no article link in their text or entities, and
\* are short.
TweetsOf(username) ==
    IF username = <<"a">>
    THEN <<[id |-> <<"7">>, article |-> TRUE, author |-> <<"a">>,
            url |-> "https://x.com/a/status/1"]>>
    ELSE IF username = <<"b">>
    THEN <<[id |-> <<"8">>, article |-> FALSE, author |-> <<"b">>,
            url |-> "https://x.com/b/status/2"]>>
    ELSE <<>>

\* The details the API answers for an article tweet.
DetailsOf(tweet) == [title |-> <<"A", "b">>]

\* findArticleUrl(tweet) returns null.
NoUrl == ""

\* findArticleUrl(tweet) for the tweets of the runs: the url of a tweet with
\* an article field, null otherwise.
findArticleUrl(tweet) == IF tweet.article THEN tweet.url ELSE NoUrl

\* seenArticles.has(id), the Set kept as the sequence of its members in the
\* order they were added.
Has(seenArticles, id) ==
    \E k \in 1..Len(seenArticles) : seenArticles[k] = id

\* new Set(array): the members of the array, each once.
RECURSIVE NewSet(_)
NewSet(array) ==
    IF array = <<>> THEN <<>>
    ELSE LET init == NewSet(SubSeq(array, 1, Len(array) - 1))
             last == array[Len(array)]
         IN  IF Has(init, last) THEN init ELSE Append(init, last)

\* seenArticles.add(tweet.id)
AddSeen(seenArticles, tweet) ==
    IF Has(seenArticles, tweet.id) THEN seenArticles
    ELSE Append(seenArticles, tweet.id)

\* The loops of checkNewArticles run on from tweet t of author k to the
\* next await: fetchArticleDetails for an article tweet that is not seen,
\* fetchUserTweets for the next author, or the write at the end.
RECURSIVE RunOn(_)
RunOn(task) ==
    IF task.t <= Len(task.tweets)
    THEN LET tweet == task.tweets[task.t]
         IN  IF findArticleUrl(tweet) # NoUrl
                /\ ~Has(task.seenArticles, tweet.id)
             THEN [task EXCEPT !.pc = "details"]
             ELSE RunOn([task EXCEPT !.t = task.t + 1])
    ELSE IF task.k < Len(task.authors)
    THEN [task EXCEPT !.pc = "tweets", !.k = task.k + 1, !.tweets = <<>>,
                      !.t = 1]
    ELSE [task EXCEPT !.pc = "set"]

\* The notifications-toggle of the popup changes: saveSettings() calls
\* storage.set with the settings the toggle gives and awaits it.
SaveSettingsCall(i, checked) ==
    /\ FreeSlot(i)
    /\ tasks' = [tasks EXCEPT ![i] =
                     [fn |-> "saveSettings", pc |-> "set",
                      settings |-> [notificationsEnabled |-> checked]]]
    /\ UNCHANGED <<encoderVars, pageVars, timerVars, storage, removedSince, authorsList>>

\* The settings are written.
SaveSettingsWrite(i) ==
    /\ tasks[i].fn = "saveSettings"
    /\ tasks[i].pc = "set"
    /\ storage' = [storage EXCEPT !.settings = tasks[i].settings]
    /\ tasks' = Finish(i)
    /\ UNCHANGED <<encoderVars, pageVars, timerVars, removedSince, authorsList>>

\* result.settings || { notificationsEnabled: true }
SettingsOr(settings) ==
    IF settings = Undefined THEN [notificationsEnabled |-> TRUE] ELSE settings

\* storage.get resolves and API_KEY is not missing: the lists and the
\* settings are read, and unless notifications are disabled or there is no
\* author fetchUserTweets is awaited for the first.
CheckNewArticlesStart(i) ==
    /\ tasks[i].fn = "checkNewArticles"
    /\ tasks[i].pc = "get"
    /\ ~KeyMissing(API_KEY)
    /\ LET authors == Get("followed_authors")
           settings == SettingsOr(Get("settings"))
           seenArticles == NewSet(Get("seen_articles"))
       IN  IF ~settings.notificationsEnabled \/ Len(authors) = 0
           THEN tasks' = Finish(i)
           ELSE tasks' = [tasks EXCEPT ![i] =
                    [fn |-> "checkNewArticles", pc |-> "tweets",
                     authors |-> authors, seenArticles |-> seenArticles,
                     k |-> 1, tweets |-> <<>>, t |-> 1,
                     newArticles |-> <<>>]]
    /\ UNCHANGED <<encoderVars, pageVars, timerVars, storage, removedSince, authorsList>>

\* fetchUserTweets resolves with the tweets of the author, or throws and
\* the error is caught: the loops run on.
FetchUserTweetsSettles(i, ok) ==
    /\ tasks[i].fn = "checkNewArticles"
    /\ tasks[i].pc = "tweets"
    /\ LET author == tasks[i].authors[tasks[i].k]
           tweets == IF ok THEN TweetsOf(author.username) ELSE <<>>
       IN  tasks' = [tasks EXCEPT ![i] =
                        RunOn([tasks[i] EXCEPT !.tweets = tweets, !.t = 1])]
    /\ UNCHANGED <<encoderVars, pageVars, timerVars, storage, removedSince, authorsList>>

\* fetchArticleDetails resolves with the article, and showNotification is
\* called and awaits chrome.notifications.create; or it resolves with null
\* and the loops run on.
FetchArticleDetailsSettles(i, ok) ==
    /\ tasks[i].fn = "checkNewArticles"
    /\ tasks[i].pc = "details"
    /\ IF ok
       THEN tasks' = [tasks EXCEPT ![i].pc = "notifyCreate"]
       ELSE tasks' = [tasks EXCEPT ![i] =
                         RunOn([tasks[i] EXCEPT !.t = tasks[i].t + 1])]
    /\ UNCHANGED <<encoderVars, pageVars, timerVars, storage, removedSince, authorsList>>

\* chrome.notifications.create of showNotification resolves, or rejects
\* and the error is caught: storage.get is called and awaited.
CheckNotifyCreated(i) ==
    /\ tasks[i].fn = "checkNewArticles"
    /\ tasks[i].pc = "notifyCreate"
    /\ tasks' = [tasks EXCEPT ![i].pc = "notifyGet"]
    /\ UNCHANGED <<encoderVars, pageVars, timerVars, storage, removedSince, authorsList>>

\* storage.get of showNotification resolves: the entry is put first on the
\* list that was read, and storage.set is called with the list and awaited.
CheckNotifyRead(i) ==
    /\ tasks[i].fn = "checkNewArticles"
    /\ tasks[i].pc = "notifyGet"
    /\ LET author == tasks[i].authors[tasks[i].k]
           tweet == tasks[i].tweets[tasks[i].t]
           entry == NewArticle(author, DetailsOf(tweet), findArticleUrl(tweet))
       IN  tasks' = [tasks EXCEPT
                        ![i].pc = "notifySet",
                        ![i].newArticles =
                            UnshiftAndTrim(Get("new_articles"), entry)]
    /\ UNCHANGED <<encoderVars, pageVars, timerVars, storage, removedSince, authorsList>>

\* The list is written and showNotification returns: the id of the tweet
\* is added to the seen set and the loops run on.
CheckNotifyWrite(i) ==
    /\ tasks[i].fn = "checkNewArticles"
    /\ tasks[i].pc = "notifySet"
    /\ storage' = [storage EXCEPT !.new_articles = tasks[i].newArticles]
    /\ LET tweet == tasks[i].tweets[tasks[i].t]
       IN  tasks' = [tasks EXCEPT ![i] =
                        RunOn([tasks[i] EXCEPT
                                  !.seenArticles =
                                      AddSeen(tasks[i].seenArticles, tweet),
                                  !.t = tasks[i].t + 1])]
    /\ UNCHANGED <<encoderVars, pageVars, timerVars, removedSince, authorsList>>

\* The seen set and the authors that were read are written.
CheckNewArticlesWrite(i) ==
    /\ tasks[i].fn = "checkNewArticles"
    /\ tasks[i].pc = "set"
    /\ storage' = [storage EXCEPT !.seen_articles = tasks[i].seenArticles,
                                  !.followed_authors = tasks[i].authors]
    /\ tasks' = Finish(i)
    /\ UNCHANGED <<encoderVars, pageVars, timerVars, removedSince, authorsList>>

\* What is typed into the author input in the runs of checkNewArticles.
CheckedUsernames == {<<"a">>, <<"@", "B">>}

NextCheck ==
    \E i \in 1..MaxTasks :
        \/ \E username \in CheckedUsernames : AddAuthorCall(i, username)
        \/ AddAuthorRead(i)
        \/ AddAuthorFetched(i)
        \/ AddAuthorWrite(i)
        \/ LoadAuthorsRender(i)
        \/ \E username \in StoredUsernames : RemoveAuthorCall(i, username)
        \/ RemoveAuthorRead(i)
        \/ RemoveAuthorWrite(i)
        \/ CheckNewArticlesCall(i)
        \/ CheckNewArticlesRead(i)
        \/ CheckNewArticlesStart(i)
        \/ \E ok \in BOOLEAN : FetchUserTweetsSettles(i, ok)
        \/ \E ok \in BOOLEAN : FetchArticleDetailsSettles(i, ok)
        \/ CheckNotifyCreated(i)
        \/ CheckNotifyRead(i)
        \/ CheckNotifyWrite(i)
        \/ CheckNewArticlesWrite(i)
        \/ \E checked \in BOOLEAN : SaveSettingsCall(i, checked)
        \/ SaveSettingsWrite(i)

SpecCheck == InitDiscover /\ [][NextCheck]_vars

----------------------------------------------------------------------------
(* The seen articles *)

\* The ids of the tweets of a user.
TweetIds(username) ==
    {TweetsOf(username)[k].id : k \in 1..Len(TweetsOf(username))}

\* checkNewArticles returns at its test of API_KEY: no call is past the
\* storage.get it starts with.
ReturnsAtKeyTest ==
    \A i \in DOMAIN tasks :
        tasks[i].fn = "checkNewArticles" => tasks[i].pc = "get"

\* No id is recorded in seen_articles and no article is put on the
\* Discover list.
NothingRecorded ==
    /\ storage.seen_articles = <<>>
    /\ storage.new_articles = <<>>

\* After removeAuthor(u), seen_articles holds no id of a tweet of author u.
SeenCleared ==
    \A name \in removedSince :
        \A k \in 1..Len(storage.seen_articles) :
            storage.seen_articles[k] \notin TweetIds(name)

====
